---- MODULE Spec2Model ----
(***************************************************************************)
(* A model of the DWARF debug session of symbolic-debuginfo (dwarf.rs) and *)
(* of the symbol cache lookup of symbolic-symcache-new (format/lookup.rs). *)
(*                                                                         *)
(* Three specifications share the variables of this module:                *)
(*   SpecLookup  Format::lookup and SourceLocationIter::next               *)
(*   SpecLines   DwarfUnit::resolve_lines and the inline line splicing     *)
(*   Spec        DwarfFunctionIterator::next with DwarfUnit::functions     *)
(* Each specification leaves the variables of the other two unchanged.     *)
(*                                                                         *)
(* Indices are 0-based as in the source; At(s, i) reads a Rust slice.      *)
(* Option<T> over numbers is modelled with None == -1.                     *)
(***************************************************************************)
EXTENDS Integers, Sequences, FiniteSets, TLC

None == 0 - 1

IsSome(x) == x # None

At(s, i) == s[i + 1]

Min(a, b) == IF a < b THEN a ELSE b

Max(a, b) == IF a < b THEN b ELSE a

Range(s) == {s[i] : i \in DOMAIN s}

RECURSIVE SeqsUpTo(_, _)
SeqsUpTo(S, n) ==
    IF n = 0 THEN {<<>>}
    ELSE LET shorter == SeqsUpTo(S, n - 1)
         IN  shorter \cup {Append(s, x) : s \in {t \in shorter : Len(t) = n - 1}, x \in S}

(***************************************************************************)
(* Bounds of the symbol cache model.                                       *)
(***************************************************************************)
\* greatest relative address stored in ranges
MaxRel == 3
\* greatest number of ranges of a cache
MaxRanges == 2
\* numbers of source locations that precede the per-range ones (inline ancestors)
ExtraCounts == {0, 1}
\* calls of SourceLocationIter::next on one iterator
MaxNext == 5

VARIABLES
    format,               \* the loaded Format: ranges, source_locations, addr_offset
    lookup_addr,          \* the argument of the last lookup, None before the first
    source_location_idx,  \* SourceLocationIter.source_location_idx
    yielded,              \* indices of the SourceLocations the iterator has yielded
    results,              \* what each next() on the current iterator returned:
                          \* "some" (Ok(Some)), "none" (Ok(None)) or "err"
    failed,               \* the last lookup panicked
    accessed              \* the last call of SourceLocation::file or ::function:
                          \* [accessor, location, result], NoAccess before the first

lookupVars == <<format, lookup_addr, source_location_idx, yielded, results, failed,
                accessed>>

\* greatest number of entries of files and of functions
MaxTable == 1

VARIABLES
    info,          \* DwarfInfo: [address_offset, kind]
    line_program   \* DwarfUnit.line_program: [present, num_files, sequences]

unitVars == <<info, line_program>>

VARIABLES
    stream,    \* the rows the line program's state machine has given so far
    prep,      \* DwarfLineProgram::prepare: [sequences, sequence_rows, prev_address]
    query,     \* the range of the last get_rows, NoQuery before the first
    returned   \* the rows the last get_rows returned

prepareVars == <<stream, prep, query, returned>>

\* rows of one line program
MaxRows == 4

VARIABLES
    parent_lines,  \* parent.lines: the lines of the function inlinees are spliced into
    lines_before,  \* parent.lines before the last inlinee was processed
    inlinee,       \* the last inlinee: [range_buf, call_line, call_file], or NoInlinee
    splices        \* number of inlinees processed for this parent, None before
                   \* the parent's lines are resolved

VARIABLES
    run,        \* 1 in the first DwarfFunctionIterator of the session, 2 in the second
    first_run,  \* what the first iterator walked and returned, NoFirst before
    units       \* DwarfInfo.units: per unit, what get_unit and from_unit gave

sessionVars == <<run, first_run, units>>

VARIABLES
    entry,         \* the attributes of the DIE given to parse_ranges, NoEntry before
    parse_result   \* what parse_ranges returned for it: [err, call_line, call_file, range_buf]

rangesVars == <<entry, parse_result>>

VARIABLES
    subject,        \* the function DIE that is given its name, NoSubject before
    resolving,      \* the DIE the running call of resolve_function_name is for
    name_result,    \* what resolve_function_name returned, Pending before
    symbol_lookups, \* calls of resolve_symbol_name for the subject
    function_name   \* `name` in DwarfUnit::functions: <<>> before, then <<Name>>

nameVars == <<subject, resolving, name_result, symbol_lookups, function_name>>

\* attributes of one DIE
MaxAttrs == 2

linesVars == <<parent_lines, lines_before, inlinee, splices>>

\* greatest number of inlinees spliced into one parent
MaxSplices == 2

VARIABLES
    unit_index,    \* DwarfUnitIterator.index
    functions,     \* DwarfFunctionIterator.functions: what is left of the unit's Vec
    range_buf,     \* DwarfFunctionIterator.range_buf
    seen_ranges,   \* DwarfFunctionIterator.seen_ranges
    finished,      \* DwarfFunctionIterator.finished
    pc,            \* "idle": between units; "walking": inside DwarfUnit::functions
    depth,         \* DwarfUnit::functions: depth
    skipped_depth, \* DwarfUnit::functions: skipped_depth
    stack,         \* DwarfUnit::functions: stack, entries [depth, function]
    out,           \* DwarfUnit::functions: the local Vec functions
    walked,        \* the DIEs next_dfs has returned, with what the walk did to each
    emitted        \* the items next() has returned so far

walkVars == <<unit_index, functions, range_buf, seen_ranges, finished, pc, depth,
              skipped_depth, stack, out, walked, emitted>>

\* DIEs below the unit DIEs of one session
MaxDies == 3
\* unit headers of the session
MaxUnits == 2
\* calls of next() on an iterator after it has returned None
MaxNextAfterEnd == 1

(***************************************************************************)
(* slice::binary_search_by_key on a strictly ascending slice: Ok(i) when   *)
(* the key is at index i, else Err(i) with i the insertion point.          *)
(***************************************************************************)
BinarySearch(keys, key) ==
    IF \E i \in DOMAIN keys : keys[i] = key
    THEN [ok |-> TRUE, idx |-> (CHOOSE i \in DOMAIN keys : keys[i] = key) - 1]
    ELSE [ok |-> FALSE, idx |-> Cardinality({i \in DOMAIN keys : keys[i] < key})]

\* Format::offset_addr: the address relative to the cache's addr_offset,
\* None when the subtraction underflows.
offset_addr(fmt, addr) ==
    IF addr >= fmt.addr_offset THEN addr - fmt.addr_offset ELSE None

source_location_start(fmt) == Len(fmt.source_locations) - Len(fmt.ranges)

\* mutant: the exact hit starts one entry too late
lookup_idx_off_by_one(fmt, addr) ==
    LET rel == offset_addr(fmt, addr)
        res == BinarySearch(fmt.ranges, rel)
    IN  IF rel = None THEN None
        ELSE IF res.ok THEN source_location_start(fmt) + res.idx + 1
        ELSE IF res.idx = Len(fmt.ranges) THEN None
        ELSE source_location_start(fmt) + res.idx

\* The source_location_idx computed by Format::lookup.
lookup_idx(fmt, addr) ==
    LET rel == offset_addr(fmt, addr)
        res == BinarySearch(fmt.ranges, rel)
    IN  IF rel = None THEN None
        ELSE IF res.ok THEN source_location_start(fmt) + res.idx
        ELSE IF res.idx = Len(fmt.ranges) THEN None
        ELSE source_location_start(fmt) + res.idx

\* Format::lookup panics: in a debug build when the subtraction of the table
\* lengths overflows, and in both builds when the start index, which a
\* release build wraps, does not fit Index (`Index::try_from(..).unwrap()`)
lookup_fails(fmt, addr, build) ==
    LET rel == offset_addr(fmt, addr)
        res == BinarySearch(fmt.ranges, rel)
    IN  \/ build = "debug" /\ Len(fmt.source_locations) < Len(fmt.ranges)
        \/ /\ rel # None
           /\ res.ok \/ res.idx # Len(fmt.ranges)
           /\ source_location_start(fmt) + res.idx < 0

\* mutant: the index one past the table is taken for an entry
get_file_past_end(fmt, file_idx) ==
    IF file_idx <= fmt.files
    THEN [kind |-> "file", idx |-> file_idx]
    ELSE [kind |-> "InvalidFileReference", idx |-> file_idx]

\* Format::get_file; fmt.files is the length of the files table
get_file(fmt, file_idx) ==
    IF file_idx < fmt.files
    THEN [kind |-> "file", idx |-> file_idx]
    ELSE [kind |-> "InvalidFileReference", idx |-> file_idx]

\* SourceLocation::file
location_file(fmt, source_location) ==
    IF source_location.file_idx = None
    THEN [kind |-> "none", idx |-> None]
    ELSE get_file(fmt, source_location.file_idx)

\* SourceLocation::function; fmt.functions is the length of the functions table
location_function(fmt, source_location) ==
    IF source_location.function_idx = None
    THEN [kind |-> "none", idx |-> None]
    ELSE IF source_location.function_idx < fmt.functions
    THEN [kind |-> "function", idx |-> source_location.function_idx]
    ELSE [kind |-> "InvalidFunctionReference", idx |-> source_location.function_idx]

\* mutant: the iterator does not follow inlined_into_idx but the next entry
iter_advance_sequential(fmt, idx) == idx + 1

\* The index SourceLocationIter::next stores after yielding entry idx.
iter_advance(fmt, idx) == At(fmt.source_locations, idx).inlined_into_idx

\* Strictly ascending sequences over 0..MaxRel of at most MaxRanges entries.
RangeTables ==
    {r \in SeqsUpTo(0..MaxRel, MaxRanges) :
        \A i \in 1..(Len(r) - 1) : r[i] < r[i + 1]}

\* Source location tables of n entries; inlined_into_idx may name any entry,
\* itself, or the first index past the table.
SourceLocationTables(n) ==
    [1..n -> [inlined_into_idx : {None} \cup 0..n]]

FormatsOver(r) ==
    {[ranges |-> r, source_locations |-> sl, addr_offset |-> off] :
        sl \in UNION {SourceLocationTables(Len(r) + e) : e \in ExtraCounts},
        off \in 0..1}

\* The loaded caches: source_locations is at least as long as ranges.
Formats == UNION {FormatsOver(r) : r \in RangeTables}

\* Source locations with all their indices: each may be absent, name the
\* first entry of its table, or be the index MaxTable, which is past the
\* end of every table of the model.
FullSourceLocationTables(n) ==
    [1..n -> [inlined_into_idx : {None} \cup 0..n,
              file_idx : {None, 0, MaxTable},
              function_idx : {None, 0, MaxTable}]]

\* Caches of one range with files and functions tables of 0 or MaxTable
\* entries and source_locations tables of 1 or 2
AccessFormats ==
    {[ranges |-> <<1>>, source_locations |-> sl, addr_offset |-> 0,
      files |-> nfiles, functions |-> nfunctions] :
        sl \in UNION {FullSourceLocationTables(n) : n \in 1..2},
        nfiles \in {0, MaxTable},
        nfunctions \in {0, MaxTable}}

\* Caches whose source_locations table has any length up to MaxRanges, also
\* less than the length of ranges
AnyFormats ==
    {[ranges |-> r, source_locations |-> sl, addr_offset |-> off] :
        r \in RangeTables,
        sl \in UNION {SourceLocationTables(n) : n \in 0..MaxRanges},
        off \in 0..1}

\* the builds of the crate: overflow checks on or off
Builds == {"debug", "release"}

(***************************************************************************)
(* The line program index: DwarfLineProgram::prepare and get_rows.         *)
(*                                                                         *)
(* A program row is [address, file_index, line, end_sequence]; line 0      *)
(* stands for a row without a line (gimli's Option<NonZeroU64>).           *)
(* A DwarfRow is [address, file_index, line, size] with Option fields.     *)
(***************************************************************************)
\* the last element of a non-empty sequence
Last(s) == s[Len(s)]

\* offset(addr, offset): addr - offset. The sessions of this model keep the
\* address offset at or below every address it is subtracted from, so the
\* wrapping subtraction never wraps.
offset(addr, off) == addr - off

DwarfRow(row) ==
    [address |-> row.address,
     file_index |-> row.file_index,
     line |-> IF row.line = 0 THEN None ELSE row.line,
     size |-> None]

\* mutant: the size is set whatever the address of the row
set_last_size_always(rows, address) ==
    IF rows # <<>>
    THEN [rows EXCEPT ![Len(rows)].size = address - Last(rows).address]
    ELSE rows

\* the rows accumulated so far after `last_row.size = Some(address - last_row.address)`
set_last_size(rows, address) ==
    IF rows # <<>> /\ address >= Last(rows).address
    THEN [rows EXCEPT ![Len(rows)].size = address - Last(rows).address]
    ELSE rows

\* mutant: a row that repeats the address of the last row is dropped
push_row_keep_first(rows, row) ==
    IF rows # <<>> /\ Last(rows).address = row.address
    THEN rows
    ELSE Append(rows, DwarfRow(row))

\* the body of the else branch: a duplicate address overwrites the last row
push_row(rows, row) ==
    IF rows # <<>> /\ Last(rows).address = row.address
    THEN [rows EXCEPT ![Len(rows)].file_index = row.file_index,
                      ![Len(rows)].line = IF row.line = 0 THEN None ELSE row.line]
    ELSE Append(rows, DwarfRow(row))

\* One iteration of the while loop of prepare over the state
\* [sequences, sequence_rows, prev_address].
prepare_row(st, row) ==
    IF row.address = 0 THEN st
    ELSE LET rows == set_last_size(st.sequence_rows, row.address)
         IN  IF row.end_sequence
             THEN [sequences |->
                       IF rows # <<>>
                       THEN Append(st.sequences,
                                [start |-> rows[1].address,
                                 end |-> IF row.address < st.prev_address
                                         THEN st.prev_address + 1
                                         ELSE row.address,
                                 rows |-> rows])
                       ELSE st.sequences,
                   sequence_rows |-> <<>>,
                   prev_address |-> 0]
             ELSE IF row.address < st.prev_address
             THEN [st EXCEPT !.sequence_rows = rows]
             ELSE [sequences |-> st.sequences,
                   sequence_rows |-> push_row(rows, row),
                   prev_address |-> row.address]

RECURSIVE prepare_rows(_, _)
prepare_rows(st, program) ==
    IF program = <<>> THEN st
    ELSE prepare_rows(prepare_row(st, Head(program)), Tail(program))

\* mutant: the open sequence ends at the address of its last row less one
close_open_sequence_short(st) ==
    IF st.sequence_rows # <<>>
    THEN Append(st.sequences,
             [start |-> st.sequence_rows[1].address,
              end |-> st.prev_address - 1,
              rows |-> st.sequence_rows])
    ELSE st.sequences

\* the sequence left open when the row stream ends without end_sequence
close_open_sequence(st) ==
    IF st.sequence_rows # <<>>
    THEN Append(st.sequences,
             [start |-> st.sequence_rows[1].address,
              end |-> st.prev_address + 1,
              rows |-> st.sequence_rows])
    ELSE st.sequences

\* dmsort::sort_by_key(&mut sequences, |x| x.start): a stable sort
RECURSIVE insert_by_start(_, _)
insert_by_start(sorted, seq) ==
    IF sorted = <<>> THEN <<seq>>
    ELSE IF Last(sorted).start <= seq.start THEN Append(sorted, seq)
    ELSE Append(insert_by_start(SubSeq(sorted, 1, Len(sorted) - 1), seq), Last(sorted))

RECURSIVE sort_by_start(_)
sort_by_start(sequences) ==
    IF sequences = <<>> THEN <<>>
    ELSE insert_by_start(sort_by_start(SubSeq(sequences, 1, Len(sequences) - 1)),
                         Last(sequences))

\* DwarfLineProgram::prepare: the sorted sequences of a row stream
prepare(program) ==
    sort_by_start(close_open_sequence(
        prepare_rows([sequences |-> <<>>, sequence_rows |-> <<>>, prev_address |-> 0],
                     program)))

addresses(rows) == [i \in DOMAIN rows |-> rows[i].address]

\* mutant: a miss starts at the insertion point, not at the row before it
rows_of_sequence_from_next(seq, range) ==
    LET found == BinarySearch(addresses(seq.rows), range.begin)
        tail == SubSeq(seq.rows, found.idx + 1, Len(seq.rows))
        len == BinarySearch(addresses(tail), range.end).idx
    IN  SubSeq(tail, 1, len)

\* The rows get_rows takes from one sequence
rows_of_sequence(seq, range) ==
    LET found == BinarySearch(addresses(seq.rows), range.begin)
        from == IF found.ok THEN found.idx ELSE found.idx - 1
        tail == SubSeq(seq.rows, from + 1, Len(seq.rows))
        len == BinarySearch(addresses(tail), range.end).idx
    IN  SubSeq(tail, 1, len)

\* whether the loop of get_rows passes over a sequence
\* mutant: a sequence that ends at or below range.begin is searched as well
skips_sequence_above_only(seq, range) ==
    \/ seq.start > range.end
    \/ LET found == BinarySearch(addresses(seq.rows), range.begin)
       IN  ~found.ok /\ found.idx = 0

skips_sequence(seq, range) ==
    \/ seq.end <= range.begin
    \/ seq.start > range.end
    \/ LET found == BinarySearch(addresses(seq.rows), range.begin)
       IN  ~found.ok /\ found.idx = 0

RECURSIVE get_rows_last_match(_, _)
\* mutant: the sequences are visited from the last to the first
get_rows_last_match(sequences, range) ==
    IF sequences = <<>> THEN <<>>
    ELSE IF skips_sequence(Last(sequences), range)
    THEN get_rows_last_match(SubSeq(sequences, 1, Len(sequences) - 1), range)
    ELSE rows_of_sequence(Last(sequences), range)

RECURSIVE get_rows(_, _)
\* DwarfLineProgram::get_rows over the sequences that are left to visit
get_rows(sequences, range) ==
    IF sequences = <<>> THEN <<>>
    ELSE IF skips_sequence(Head(sequences), range) THEN get_rows(Tail(sequences), range)
    ELSE rows_of_sequence(Head(sequences), range)

(***************************************************************************)
(* DwarfUnit::resolve_file and resolve_lines.  A FileInfo is modelled by   *)
(* the index of its file entry, the default FileInfo by 0.                 *)
(* A LineInfo is [address, size, file, line].                              *)
(***************************************************************************)
DefaultFile == 0

\* resolve_file(file_id).unwrap_or_default()
resolve_file(lp, file_id) ==
    IF lp.present /\ file_id >= 1 /\ file_id <= lp.num_files THEN file_id ELSE DefaultFile

unwrap_or_0(x) == IF x = None THEN 0 ELSE x

RECURSIVE collapse_rows(_, _, _, _, _, _)
\* the `for row in rows` loop of resolve_lines; gives [lines, last_info]
collapse_rows(lp, off, rows, lines, last_file, last_info) ==
    IF rows = <<>> THEN [lines |-> lines, last_info |-> last_info]
    ELSE LET row == Head(rows)
             line == unwrap_or_0(row.line)
         IN  IF last_file = row.file_index /\ last_info.line = line
             THEN collapse_rows(lp, off, Tail(rows), lines, last_file,
                      [last_info EXCEPT !.size =
                          IF @ = None THEN None ELSE @ + unwrap_or_0(row.size)])
             ELSE collapse_rows(lp, off, Tail(rows), Append(lines, last_info),
                      row.file_index,
                      [address |-> offset(row.address, off),
                       size |-> row.size,
                       file |-> resolve_file(lp, row.file_index),
                       line |-> line])

\* the lines resolve_lines adds for one range
resolve_range(lp, off, lines, range) ==
    LET rows == get_rows(lp.sequences, range)
    IN  IF rows = <<>> THEN lines
        ELSE LET first == Head(rows)
                 first_info ==
                     [address |-> offset(range.begin, off),
                      size |-> IF first.size = None THEN None
                               ELSE first.size + first.address - range.begin,
                      file |-> resolve_file(lp, first.file_index),
                      line |-> unwrap_or_0(first.line)]
                 done == collapse_rows(lp, off, Tail(rows), lines,
                                       first.file_index, first_info)
                 last_info ==
                     IF done.last_info.size = None THEN done.last_info
                     ELSE [done.last_info EXCEPT
                              !.size = offset(range.end, off) - done.last_info.address]
             IN  Append(done.lines, last_info)

RECURSIVE resolve_ranges(_, _, _, _)
resolve_ranges(lp, off, lines, ranges) ==
    IF ranges = <<>> THEN lines
    ELSE resolve_ranges(lp, off, resolve_range(lp, off, lines, Head(ranges)), Tail(ranges))

\* DwarfUnit::resolve_lines
resolve_lines(lp, off, ranges) ==
    IF ~lp.present THEN <<>> ELSE resolve_ranges(lp, off, <<>>, ranges)


(***************************************************************************)
(* The inline line splicing of DwarfUnit::functions: the records of the    *)
(* parent's lines inside each range of the inlinee get the call site.      *)
(* The loop state is [lines, index].                                       *)
(***************************************************************************)
\* Vec::insert(index, record)
insert_at(lines, index, record) ==
    SubSeq(lines, 1, index) \o <<record>> \o SubSeq(lines, index + 1, Len(lines))

\* record.address + record.size.unwrap_or(0)
record_end(record) == record.address + unwrap_or_0(record.size)

\* a record pointing to the call location before the first record of the range
splice_head(st, rb, re, file, line) ==
    IF st.index < Len(st.lines) /\ At(st.lines, st.index).address > rb
    THEN [lines |-> insert_at(st.lines, st.index,
                       [address |-> rb,
                        size |-> Min(re, At(st.lines, st.index).address) - rb,
                        file |-> file,
                        line |-> line]),
          index |-> st.index + 1]
    ELSE st

\* mutant: a record that exceeds the end of the range is not split there
splice_record_unsplit(st, rb, re, file, line) ==
    LET record == At(st.lines, st.index)
        index == st.index + 1
        rend == record_end(record)
        before == record.address < rb
        max_size == rb - record.address
        changed ==
            IF before
            THEN IF record.size = None \/ record.size > max_size
                 THEN [record EXCEPT !.size = max_size]
                 ELSE record
            ELSE [record EXCEPT !.file = file, !.line = line]
        lines1 == [st.lines EXCEPT ![st.index + 1] = changed]
    IN  [lines |-> IF before
                   THEN insert_at(lines1, index,
                            [address |-> rb, size |-> rend - rb,
                             file |-> file, line |-> line])
                   ELSE lines1,
         index |-> IF before THEN index + 1 ELSE index]

\* one overlapping record: split at the end of the range, split at its start
\* or relabel, then insert the split-off rest
splice_record(st, rb, re, file, line) ==
    LET record == At(st.lines, st.index)
        index == st.index + 1
        rend == record_end(record)
        has_split == rend > re
        split == [address |-> re, size |-> rend - re,
                  file |-> record.file, line |-> record.line]
        cut == IF has_split THEN [record EXCEPT !.size = re - record.address] ELSE record
        before == record.address < rb
        max_size == rb - record.address
        changed ==
            IF before
            THEN IF cut.size = None \/ cut.size > max_size
                 THEN [cut EXCEPT !.size = max_size]
                 ELSE cut
            ELSE [cut EXCEPT !.file = file, !.line = line]
        lines1 == [st.lines EXCEPT ![st.index + 1] = changed]
        lines2 == IF before
                  THEN insert_at(lines1, index,
                           [address |-> rb, size |-> Min(rend, re) - rb,
                            file |-> file, line |-> line])
                  ELSE lines1
        index2 == IF before THEN index + 1 ELSE index
    IN  [lines |-> IF has_split THEN insert_at(lines2, index2, split) ELSE lines2,
         index |-> index2]

RECURSIVE splice_records(_, _, _, _, _)
\* the `while index < lines.len()` loop
splice_records(st, rb, re, file, line) ==
    IF st.index >= Len(st.lines) THEN st
    ELSE IF At(st.lines, st.index).address >= re THEN st
    ELSE IF record_end(At(st.lines, st.index)) <= rb
    THEN splice_records([st EXCEPT !.index = @ + 1], rb, re, file, line)
    ELSE splice_records(splice_record(st, rb, re, file, line), rb, re, file, line)

\* mutant: the record for the rest of the range is put in front of the lines
splice_tail_in_front(st, rb, re, file, line) ==
    IF st.index >= 1 /\ st.index - 1 < Len(st.lines)
       /\ record_end(At(st.lines, st.index - 1)) < re
    THEN [lines |-> insert_at(st.lines, 0,
                       [address |-> record_end(At(st.lines, st.index - 1)),
                        size |-> re - record_end(At(st.lines, st.index - 1)),
                        file |-> file,
                        line |-> line]),
          index |-> st.index + 1]
    ELSE st

\* a record covering the part of the range after the last parent record
splice_tail(st, rb, re, file, line) ==
    IF st.index >= 1 /\ st.index - 1 < Len(st.lines)
       /\ record_end(At(st.lines, st.index - 1)) < re
    THEN [lines |-> insert_at(st.lines, st.index,
                       [address |-> record_end(At(st.lines, st.index - 1)),
                        size |-> re - record_end(At(st.lines, st.index - 1)),
                        file |-> file,
                        line |-> line]),
          index |-> st.index + 1]
    ELSE st

\* the body of `for range in range_buf.iter()`
splice_range(st, rb, re, file, line) ==
    splice_tail(splice_records(splice_head(st, rb, re, file, line), rb, re, file, line),
                rb, re, file, line)

RECURSIVE splice_ranges(_, _, _, _, _)
splice_ranges(st, off, ranges, file, line) ==
    IF ranges = <<>> THEN st
    ELSE splice_ranges(
             splice_range(st, offset(Head(ranges).begin, off),
                          offset(Head(ranges).end, off), file, line),
             off, Tail(ranges), file, line)

\* The parent's lines after an inlinee with range_buf and the call site
\* (call_line, call_file) has been processed.
\* mutant: a missing call_line or call_file is taken for 0
splice_lines_without_call_site(lp, off, lines, ranges, call_line, call_file) ==
    splice_ranges([lines |-> lines, index |-> 0], off, ranges,
                  resolve_file(lp, unwrap_or_0(call_file)), unwrap_or_0(call_line)).lines

splice_lines(lp, off, lines, ranges, call_line, call_file) ==
    IF call_line # None /\ call_file # None
    THEN splice_ranges([lines |-> lines, index |-> 0], off, ranges,
                       resolve_file(lp, call_file), call_line).lines
    ELSE lines

\* range_buf.sort_by_key(|r| r.begin): a stable sort
RECURSIVE insert_by_begin(_, _)
insert_by_begin(sorted, range) ==
    IF sorted = <<>> THEN <<range>>
    ELSE IF Last(sorted).begin <= range.begin THEN Append(sorted, range)
    ELSE Append(insert_by_begin(SubSeq(sorted, 1, Len(sorted) - 1), range), Last(sorted))

\* mutant: the range buffer is used in the order it was parsed
keep_order(ranges) == ranges

RECURSIVE sort_by_begin(_)
sort_by_begin(ranges) ==
    IF ranges = <<>> THEN <<>>
    ELSE insert_by_begin(sort_by_begin(SubSeq(ranges, 1, Len(ranges) - 1)), Last(ranges))


(***************************************************************************)
(* DwarfUnit::parse_ranges.  A DIE is [tag, attrs]; an attribute is        *)
(* [name, form, value].  The value of a "ranges" attribute is the list of  *)
(* results its range list iterator gives, a range or a Failure each; the   *)
(* value of an attribute of form "addrx" is an index into .debug_addr.     *)
(* The result is [err, call_line, call_file, range_buf].                   *)
(***************************************************************************)
Attr(name, form, value) == [name |-> name, form |-> form, value |-> value]

\* the .debug_addr entries of the unit: `self.inner.info.address(unit, index)`
\* gives entry index, and an error for an index past the last
DebugAddr == <<3, 1>>

\* `ranges.next()` gave Err(err)
Failure(err) == [begin |-> None, end |-> None, error |-> err]

failed_entry(item) == "error" \in DOMAIN item

RECURSIVE expanded_skip_invalid(_)
\* mutant: the loop goes on after an InvalidAddressRange
expanded_skip_invalid(list) ==
    IF list = <<>> THEN <<>>
    ELSE IF failed_entry(Head(list))
    THEN IF Head(list).error = "InvalidAddressRange"
         THEN expanded_skip_invalid(Tail(list))
         ELSE <<>>
    ELSE <<Head(list)>> \o expanded_skip_invalid(Tail(list))

RECURSIVE expanded(_)
\* the ranges `while let Some(range) = match ranges.next() {..}` binds: the
\* loop ends when the match gives None, at the end of the list and at an
\* Err(InvalidAddressRange), and the function returns at any other Err
expanded(list) ==
    IF list = <<>> \/ failed_entry(Head(list)) THEN <<>>
    ELSE <<Head(list)>> \o expanded(Tail(list))

RECURSIVE expansion_error(_)
\* the error the expansion returns with, "none" when the loop ends
expansion_error(list) ==
    IF list = <<>> THEN "none"
    ELSE IF failed_entry(Head(list))
    THEN IF Head(list).error = "InvalidAddressRange" THEN "none"
         ELSE Head(list).error
    ELSE expansion_error(Tail(list))

\* mutant: every range of a range list enters the buffer
push_ranges_keep_zero(buf, ranges, kind) == buf \o ranges

\* the ranges of a range list that enter the buffer
RECURSIVE push_ranges(_, _, _)
push_ranges(buf, ranges, kind) ==
    IF ranges = <<>> THEN buf
    ELSE push_ranges(
             IF Head(ranges).begin > 0 \/ kind = "Relocatable"
             THEN Append(buf, Head(ranges))
             ELSE buf,
             Tail(ranges), kind)

\* one iteration of `while let Some(attr) = attrs.next()?`
parse_attr(st, attr, kind) ==
    IF st.err # "none" THEN st
    ELSE IF attr.name = "low_pc"
    THEN IF attr.form = "addr" THEN [st EXCEPT !.low_pc = attr.value]
         ELSE IF attr.form = "addrx"
         THEN IF attr.value < Len(DebugAddr)
              THEN [st EXCEPT !.low_pc = DebugAddr[attr.value + 1]]
              ELSE [st EXCEPT !.err = "UnexpectedEof"]
         ELSE [st EXCEPT !.err = "UnsupportedAttributeForm"]
    ELSE IF attr.name = "high_pc"
    THEN IF attr.form = "addr" THEN [st EXCEPT !.high_pc = attr.value]
         ELSE IF attr.form = "addrx"
         THEN IF attr.value < Len(DebugAddr)
              THEN [st EXCEPT !.low_pc = DebugAddr[attr.value + 1]]
              ELSE [st EXCEPT !.err = "UnexpectedEof"]
         ELSE IF attr.form = "udata" THEN [st EXCEPT !.high_pc_rel = attr.value]
         ELSE [st EXCEPT !.err = "UnsupportedAttributeForm"]
    ELSE IF attr.name = "call_line"
    THEN IF attr.form = "udata" THEN [st EXCEPT !.call_line = attr.value]
         ELSE [st EXCEPT !.err = "UnsupportedAttributeForm"]
    ELSE IF attr.name = "call_file"
    THEN IF attr.form = "file_index" THEN [st EXCEPT !.call_file = attr.value]
         ELSE [st EXCEPT !.err = "UnsupportedAttributeForm"]
    ELSE IF attr.name = "ranges"
    THEN [st EXCEPT !.range_buf = push_ranges(@, expanded(attr.value), kind),
                    !.err = expansion_error(attr.value)]
    ELSE st

RECURSIVE parse_attrs(_, _, _)
parse_attrs(st, attrs, kind) ==
    IF attrs = <<>> THEN st
    ELSE parse_attrs(parse_attr(st, Head(attrs), kind), Tail(attrs), kind)

\* mutant: an inverted range is passed over like an empty one
synthesise_range_swallow(st, kind) ==
    IF st.err # "none" \/ st.range_buf # <<>> THEN st
    ELSE IF st.low_pc = None \/ (st.low_pc = 0 /\ kind # "Relocatable") THEN st
    ELSE IF st.high_pc = None /\ st.high_pc_rel = None THEN st
    ELSE LET high_pc == IF st.high_pc # None THEN st.high_pc
                        ELSE st.low_pc + st.high_pc_rel
         IN  IF st.low_pc >= high_pc THEN st
             ELSE [st EXCEPT !.range_buf = <<[begin |-> st.low_pc, end |-> high_pc]>>]

\* the range synthesised from low_pc and high_pc when no range list gave one
synthesise_range(st, kind) ==
    IF st.err # "none" \/ st.range_buf # <<>> THEN st
    ELSE IF st.low_pc = None \/ (st.low_pc = 0 /\ kind # "Relocatable") THEN st
    ELSE IF st.high_pc = None /\ st.high_pc_rel = None THEN st
    ELSE LET high_pc == IF st.high_pc # None THEN st.high_pc
                        ELSE st.low_pc + st.high_pc_rel
         IN  IF st.low_pc = high_pc THEN st
             ELSE IF st.low_pc > high_pc
             THEN [st EXCEPT !.err = "InvertedFunctionRange"]
             ELSE [st EXCEPT !.range_buf = <<[begin |-> st.low_pc, end |-> high_pc]>>]

parse_ranges(attrs, kind) ==
    LET st == synthesise_range(
                  parse_attrs([err |-> "none", call_line |-> None, call_file |-> None,
                               low_pc |-> None, high_pc |-> None, high_pc_rel |-> None,
                               range_buf |-> <<>>],
                              attrs, kind),
                  kind)
    IN  [err |-> st.err, call_line |-> st.call_line, call_file |-> st.call_file,
         range_buf |-> st.range_buf]

(***************************************************************************)
(* FunctionStack (crate::shared): pending functions keyed by depth.        *)
(***************************************************************************)
RECURSIVE flush(_, _)
\* FunctionStack::flush(depth, destination) on [stack, out]: pops every entry
\* at or below depth into the inlinees of the entry under it, or into out.
flush(st, d) ==
    IF st.stack = <<>> \/ Last(st.stack).depth < d THEN st
    ELSE LET top == Last(st.stack)
             rest == SubSeq(st.stack, 1, Len(st.stack) - 1)
         IN  IF rest = <<>>
             THEN flush([stack |-> <<>>, out |-> Append(st.out, top.function)], d)
             ELSE flush([stack |-> [rest EXCEPT ![Len(rest)].function.inlinees =
                                        Append(@, top.function)],
                         out |-> st.out], d)

\* function_size: the sum of the range sizes
RECURSIVE function_size(_)
function_size(ranges) ==
    IF ranges = <<>> THEN 0
    ELSE (Head(ranges).end - Head(ranges).begin) + function_size(Tail(ranges))

\* function_address: the begin of the first range of the sorted buffer
function_address(sorted, off) == offset(sorted[1].begin, off)

\* the lines of the Function pushed for a DIE
function_lines(lp, off, sorted, inline) == resolve_lines(lp, off, sorted)

\* mutant: no function is ever taken for a duplicate
is_duplicate_never(inline, seen, key) == FALSE

\* whether the (address, size) of a non-inline function was seen before
is_duplicate(inline, seen, key) == ~inline /\ key \in seen

\* mutant: the children of a skipped function are walked like any DIE
in_skipped_never(skipped, d) == FALSE

\* whether the DIE at depth d lies inside a skipped function
in_skipped(skipped, d) == skipped # None /\ d > skipped

(***************************************************************************)
(* The inputs of the line model: raw addresses, the ranges of a DIE and    *)
(* the line programs of a unit.                                            *)
(***************************************************************************)
\* the raw code addresses of the modelled units
Addrs == 1..5

\* the non-empty ranges [begin, end) over Addrs
AddrRanges ==
    {r \in [begin : Addrs, end : Addrs] : r.begin < r.end}

\* Range buffers as parse_ranges leaves them: one range, or two ranges that
\* do not overlap, in either order.
RangeBufs ==
    {<<r>> : r \in AddrRanges}
    \cup {b \in {<<r1, r2>> : r1, r2 \in AddrRanges} :
             b[1].end <= b[2].begin \/ b[2].end <= b[1].begin}

Row(address, file_index, line) ==
    [address |-> address, file_index |-> file_index, line |-> line, end_sequence |-> FALSE]

EndSequence(address) ==
    [address |-> address, file_index |-> 1, line |-> 0, end_sequence |-> TRUE]

\* The row streams of the modelled units: a row at every address; rows that
\* repeat a (file, line); one row for the whole code; two sequences emitted
\* out of order with a gap between them; no end_sequence and a second file;
\* an open sequence that sorts before a closed one; a last row that repeats
\* the address of the row before it.
Programs ==
    {<<Row(1, 1, 10), Row(2, 1, 11), Row(3, 1, 10), Row(4, 1, 11), EndSequence(5)>>,
     <<Row(1, 1, 10), Row(2, 1, 10), Row(3, 1, 11), EndSequence(5)>>,
     <<Row(1, 1, 10), EndSequence(5)>>,
     <<Row(4, 1, 11), EndSequence(5), Row(1, 1, 10), Row(2, 2, 10), EndSequence(3)>>,
     <<Row(2, 1, 10), Row(3, 2, 10)>>,
     <<Row(4, 1, 11), EndSequence(5), Row(1, 1, 10), Row(2, 2, 10)>>,
     <<Row(1, 1, 10), Row(3, 1, 11), Row(3, 2, 12)>>}

\* no inlinee has been processed yet
NoInlinee == [range_buf |-> <<>>, call_line |-> None, call_file |-> None]

\* (call_line, call_file) of an inlined_subroutine: both, or no call_line
CallSites == {<<99, 2>>, <<None, 2>>}

\* number of file entries of the line program header
NumFiles == 2

\* the line_program of a unit without DW_AT_stmt_list
NoLineProgram == [present |-> FALSE, num_files |-> 0, sequences |-> <<>>]

\* the line program of a unit: none, or the prepared sequences of its rows
LinePrograms ==
    {NoLineProgram}
    \cup {[present |-> TRUE, num_files |-> NumFiles, sequences |-> prepare(p)] :
             p \in Programs}

(***************************************************************************)
(* The DIEs of the modelled units.                                         *)
(***************************************************************************)
Die(tag, attrs) == [tag |-> tag, attrs |-> attrs]

R(begin, end) == [begin |-> begin, end |-> end]

\* subprograms: two ranges with a gap between them, listed out of order; a
\* stub at low_pc 0 with a relative high_pc; an inverted range
Subprograms ==
    {Die("subprogram", <<Attr("ranges", "rnglist", <<R(4, 5), R(1, 3)>>)>>),
     Die("subprogram", <<Attr("low_pc", "addr", 0), Attr("high_pc", "udata", 2)>>),
     Die("subprogram", <<Attr("low_pc", "addr", 3), Attr("high_pc", "addr", 1)>>)}

\* inlined subroutines: two unsorted ranges with a call site; a stub whose
\* range list begins at 0
InlinedSubroutines ==
    {Die("inlined_subroutine",
         <<Attr("ranges", "rnglist", <<R(4, 5), R(2, 3)>>),
           Attr("call_file", "file_index", 2), Attr("call_line", "udata", 99)>>),
     Die("inlined_subroutine", <<Attr("ranges", "rnglist", <<R(0, 2)>>)>>)}

\* a DIE that is no function
OtherDies == {Die("lexical_block", <<Attr("low_pc", "addr", 1)>>)}

Dies == Subprograms \cup InlinedSubroutines \cup OtherDies

\* the line program of the walked units: a row at every address
UnitPrograms ==
    {[present |-> TRUE, num_files |-> NumFiles,
      sequences |-> prepare(<<Row(1, 1, 10), Row(2, 1, 11), Row(3, 1, 10),
                              Row(4, 1, 11), EndSequence(5)>>)]}

\* the sessions: relocatable objects have no address offset
Infos ==
    {[address_offset |-> 0, kind |-> "Relocatable"],
     [address_offset |-> 1, kind |-> "Other"]}

(***************************************************************************)
(* One iteration of the DIE loop of DwarfUnit::functions, for the DIE      *)
(* `die` at depth d, as a function of the walk's state.  The result gives  *)
(* the new stack, out, skipped_depth, seen_ranges and range_buf, and the   *)
(* outcome: "skipped" (inside a skipped function), "other" (no function),  *)
(* "empty" (no ranges), "duplicate", "pushed", or the error that ends the  *)
(* walk.  id numbers the DIE; the pushed Function carries it in `die`.     *)
(***************************************************************************)
\* mutant: an inlinee without a parent is pushed like a function
walk_function_orphan(fl, d, die, id, pr, sorted, seen) ==
    [outcome |-> "pushed",
     stack |-> Append(fl.stack,
                  [depth |-> d,
                   function |-> [address |-> function_address(sorted, info.address_offset),
                                 size |-> function_size(sorted),
                                 lines |-> <<>>, inlinees |-> <<>>,
                                 inline |-> die.tag = "inlined_subroutine", die |-> id]]),
     out |-> fl.out, skipped_depth |-> None, seen |-> seen, range_buf |-> sorted]

walk_function(fl, d, die, id, pr, sorted, seen) ==
    LET inline == die.tag = "inlined_subroutine"
        off == info.address_offset
        function ==
            [address |-> function_address(sorted, off),
             size |-> function_size(sorted),
             lines |-> function_lines(line_program, off, sorted, inline),
             inlinees |-> <<>>,
             inline |-> inline,
             die |-> id]
        parents ==
            IF inline
            THEN [fl.stack EXCEPT ![Len(fl.stack)].function.lines =
                      splice_lines(line_program, off, @, sorted, pr.call_line, pr.call_file)]
            ELSE fl.stack
    IN  IF inline /\ fl.stack = <<>>
        THEN [outcome |-> "UnexpectedInline", stack |-> fl.stack, out |-> fl.out,
              skipped_depth |-> None, seen |-> seen, range_buf |-> sorted]
        ELSE [outcome |-> "pushed",
              stack |-> Append(parents, [depth |-> d, function |-> function]),
              out |-> fl.out, skipped_depth |-> None, seen |-> seen, range_buf |-> sorted]

\* mutant: the stack is not flushed before the DIE is looked at
walk_die_unflushed(d, die, id) ==
    IF in_skipped(skipped_depth, d)
    THEN [outcome |-> "skipped", stack |-> stack, out |-> out,
          skipped_depth |-> skipped_depth, seen |-> seen_ranges, range_buf |-> range_buf]
    ELSE LET fl == [stack |-> stack, out |-> out]
             pr == parse_ranges(die.attrs, info.kind)
             sorted == sort_by_begin(pr.range_buf)
             inline == die.tag = "inlined_subroutine"
             key == <<function_address(sorted, info.address_offset), function_size(sorted)>>
         IN  IF die.tag \notin {"subprogram", "inlined_subroutine"}
             THEN [outcome |-> "other", stack |-> fl.stack, out |-> fl.out,
                   skipped_depth |-> None, seen |-> seen_ranges, range_buf |-> range_buf]
             ELSE IF pr.err # "none"
             THEN [outcome |-> pr.err, stack |-> fl.stack, out |-> fl.out,
                   skipped_depth |-> None, seen |-> seen_ranges, range_buf |-> pr.range_buf]
             ELSE IF pr.range_buf = <<>>
             THEN [outcome |-> "empty", stack |-> fl.stack, out |-> fl.out,
                   skipped_depth |-> d, seen |-> seen_ranges, range_buf |-> <<>>]
             ELSE IF is_duplicate(inline, seen_ranges, key)
             THEN [outcome |-> "duplicate", stack |-> fl.stack, out |-> fl.out,
                   skipped_depth |-> d, seen |-> seen_ranges, range_buf |-> sorted]
             ELSE walk_function(fl, d, die, id, pr, sorted,
                                IF inline THEN seen_ranges ELSE seen_ranges \cup {key})

walk_die(d, die, id) ==
    IF in_skipped(skipped_depth, d)
    THEN [outcome |-> "skipped", stack |-> stack, out |-> out,
          skipped_depth |-> skipped_depth, seen |-> seen_ranges, range_buf |-> range_buf]
    ELSE LET fl == flush([stack |-> stack, out |-> out], d)
             pr == parse_ranges(die.attrs, info.kind)
             sorted == sort_by_begin(pr.range_buf)
             inline == die.tag = "inlined_subroutine"
             key == <<function_address(sorted, info.address_offset), function_size(sorted)>>
         IN  IF die.tag \notin {"subprogram", "inlined_subroutine"}
             THEN [outcome |-> "other", stack |-> fl.stack, out |-> fl.out,
                   skipped_depth |-> None, seen |-> seen_ranges, range_buf |-> range_buf]
             ELSE IF pr.err # "none"
             THEN [outcome |-> pr.err, stack |-> fl.stack, out |-> fl.out,
                   skipped_depth |-> None, seen |-> seen_ranges, range_buf |-> pr.range_buf]
             ELSE IF pr.range_buf = <<>>
             THEN [outcome |-> "empty", stack |-> fl.stack, out |-> fl.out,
                   skipped_depth |-> d, seen |-> seen_ranges, range_buf |-> <<>>]
             ELSE IF is_duplicate(inline, seen_ranges, key)
             THEN [outcome |-> "duplicate", stack |-> fl.stack, out |-> fl.out,
                   skipped_depth |-> d, seen |-> seen_ranges, range_buf |-> sorted]
             ELSE walk_function(fl, d, die, id, pr, sorted,
                                IF inline THEN seen_ranges ELSE seen_ranges \cup {key})

\* the outcomes of a DIE that make DwarfUnit::functions return Err
Errors == {"UnexpectedInline", "InvertedFunctionRange", "UnsupportedAttributeForm"}

\* mutant: the functions collected before the error are handed out
failed_walk_functions_partial(fns, st) == flush(st, 0).out

\* DwarfFunctionIterator.functions after DwarfUnit::functions returned Err:
\* the iterator keeps what it had, the walk's Vec is dropped
failed_walk_functions(fns, st) == fns

vars == <<lookupVars, unitVars, prepareVars, sessionVars, rangesVars, nameVars, linesVars, walkVars>>

\* the variables of the symbol cache while a DWARF specification runs
NoAccess == [accessor |-> "none", location |-> None, result |-> None]

NoLookup ==
    /\ format = [ranges |-> <<>>, source_locations |-> <<>>, addr_offset |-> 0]
    /\ lookup_addr = None
    /\ source_location_idx = None
    /\ yielded = <<>>
    /\ results = <<>>
    /\ failed = FALSE
    /\ accessed = NoAccess

\* the variables of the line model while another specification runs
NoLines ==
    /\ parent_lines = <<>>
    /\ lines_before = <<>>
    /\ inlinee = NoInlinee
    /\ splices = None

\* the state of prepare before the first row
NewPrepare == [sequences |-> <<>>, sequence_rows |-> <<>>, prev_address |-> 0]

\* no get_rows yet
NoQuery == [begin |-> None, end |-> None]

\* the variables of the line program model while another specification runs
NoPrepare ==
    /\ stream = <<>>
    /\ prep = NewPrepare
    /\ query = NoQuery
    /\ returned = <<>>

\* the first iterator has not finished
NoFirst == [walked |-> <<>>, emitted |-> <<>>]

\* parse_ranges has not been called
NoEntry == <<Attr("none", "none", None)>>

NoRangesParsed ==
    /\ entry = NoEntry
    /\ parse_result = [err |-> "none", call_line |-> None, call_file |-> None,
                       range_buf |-> <<>>]

\* no DIE
NoDie == [unit |-> 0, offset |-> 0]

\* no function is being named
NoSubject == [inline |-> FALSE, producer |-> "", symbol_map |-> <<>>, begin |-> 0,
              at |-> NoDie, attrs |-> <<>>]

\* resolve_function_name has not returned
Pending == [kind |-> "pending"]

NoNames ==
    /\ subject = NoSubject
    /\ resolving = NoDie
    /\ name_result = Pending
    /\ symbol_lookups = 0
    /\ function_name = <<>>

\* a session no unit of which has been asked for
NewSession ==
    /\ run = 1
    /\ first_run = NoFirst
    /\ units = <<>>

\* a function iterator as DwarfDebugSession::functions creates it
NewIterator ==
    /\ unit_index = 0
    /\ functions = <<>>
    /\ range_buf = <<>>
    /\ seen_ranges = {}
    /\ finished = FALSE
    /\ pc = "idle"
    /\ depth = 0
    /\ skipped_depth = None
    /\ stack = <<>>
    /\ out = <<>>
    /\ walked = <<>>
    /\ emitted = <<>>

(***************************************************************************)
(* SpecLookup: lookups in one loaded symbol cache.                         *)
(***************************************************************************)
LookupInit ==
    /\ format \in Formats
    /\ lookup_addr = None
    /\ source_location_idx = None
    /\ yielded = <<>>
    /\ results = <<>>
    /\ failed = FALSE
    /\ accessed = NoAccess
    /\ info = [address_offset |-> 0, kind |-> "Other"]
    /\ line_program = NoLineProgram
    /\ NoLines
    /\ NewIterator
    /\ NoPrepare
    /\ NewSession
    /\ NoRangesParsed
    /\ NoNames

\* Format::lookup(addr): builds a new iterator.
Lookup ==
    \E addr \in 0..(MaxRel + 2) :
        /\ lookup_addr' = addr
        /\ source_location_idx' = lookup_idx(format, addr)
        /\ yielded' = <<>>
        /\ results' = <<>>
        /\ UNCHANGED <<format, failed, accessed, unitVars, prepareVars, sessionVars, rangesVars, nameVars,
                       linesVars, walkVars>>

\* SourceLocationIter::next
IterNext ==
    /\ lookup_addr # None
    /\ Len(results) < MaxNext
    /\ IF source_location_idx = None
       THEN /\ results' = Append(results, "none")
            /\ UNCHANGED <<source_location_idx, yielded>>
       ELSE IF source_location_idx < Len(format.source_locations)
       THEN /\ results' = Append(results, "some")
            /\ yielded' = Append(yielded, source_location_idx)
            /\ source_location_idx' = iter_advance(format, source_location_idx)
       ELSE /\ results' = Append(results, "err")
            /\ UNCHANGED <<source_location_idx, yielded>>
    /\ UNCHANGED <<format, lookup_addr, failed, accessed, unitVars, prepareVars,
                   sessionVars, rangesVars, nameVars, linesVars, walkVars>>

(***************************************************************************)
(* SpecAccess: lookups in a cache with files and functions, and the        *)
(* accessors of the source locations the iterator yields.                  *)
(* SpecLookupAny: lookups in a cache whose tables have any lengths.  A     *)
(* lookup that panics ends the behaviour.                                  *)
(***************************************************************************)
AccessInitOver(formats) ==
    /\ format \in formats
    /\ lookup_addr = None
    /\ source_location_idx = None
    /\ yielded = <<>>
    /\ results = <<>>
    /\ failed = FALSE
    /\ accessed = NoAccess
    /\ info = [address_offset |-> 0, kind |-> "Other"]
    /\ line_program = NoLineProgram
    /\ NoLines
    /\ NewIterator
    /\ NoPrepare
    /\ NewSession
    /\ NoRangesParsed
    /\ NoNames

\* Format::lookup(addr) in either build
LookupAny ==
    /\ ~failed
    /\ \E addr \in 0..(MaxRel + 2), build \in Builds :
           /\ lookup_addr' = addr
           /\ failed' = lookup_fails(format, addr, build)
           /\ source_location_idx' =
                  IF lookup_fails(format, addr, build) THEN None
                  ELSE lookup_idx(format, addr)
    /\ yielded' = <<>>
    /\ results' = <<>>
    /\ accessed' = NoAccess
    /\ UNCHANGED <<format, unitVars, prepareVars, sessionVars, rangesVars, nameVars, linesVars, walkVars>>

\* SourceLocationIter::next, until the chain has been as long as the table
NextAny ==
    /\ ~failed
    /\ Len(results) <= Len(format.source_locations)
    /\ IterNext

\* SourceLocation::file on the source location yielded last
File ==
    /\ ~failed
    /\ yielded # <<>>
    /\ accessed' = [accessor |-> "file", location |-> Last(yielded),
                    result |-> location_file(format,
                                   At(format.source_locations, Last(yielded)))]
    /\ UNCHANGED <<format, lookup_addr, source_location_idx, yielded, results, failed,
                   unitVars, prepareVars, sessionVars, rangesVars, nameVars, linesVars, walkVars>>

\* SourceLocation::function on the source location yielded last
Function ==
    /\ ~failed
    /\ yielded # <<>>
    /\ accessed' = [accessor |-> "function", location |-> Last(yielded),
                    result |-> location_function(format,
                                   At(format.source_locations, Last(yielded)))]
    /\ UNCHANGED <<format, lookup_addr, source_location_idx, yielded, results, failed,
                   unitVars, prepareVars, sessionVars, rangesVars, nameVars, linesVars, walkVars>>

AccessInit == AccessInitOver(AccessFormats)

AccessAny == LookupAny \/ NextAny \/ File \/ Function

SpecAccess == AccessInit /\ [][AccessAny]_vars

LookupAnyInit == AccessInitOver(AnyFormats)

LookupAnyNext == LookupAny \/ NextAny

SpecLookupAny == LookupAnyInit /\ [][LookupAnyNext]_vars


LookupNext == Lookup \/ IterNext

SpecLookup == LookupInit /\ [][LookupNext]_vars

(***************************************************************************)
(* SpecLines: the lines of one function.  ResolveParent is the function's  *)
(* own walk step (sort of the range buffer, resolve_lines); SpliceInlinee  *)
(* is the walk step of an inlined_subroutine that finds the function on    *)
(* top of the stack.                                                       *)
(***************************************************************************)
LinesInit ==
    /\ NoLookup
    /\ NewIterator
    /\ NoPrepare
    /\ NewSession
    /\ NoRangesParsed
    /\ NoNames
    /\ info \in {[address_offset |-> off, kind |-> "Other"] : off \in 0..1}
    /\ line_program \in LinePrograms
    /\ parent_lines = <<>>
    /\ lines_before = <<>>
    /\ inlinee = NoInlinee
    /\ splices = None

ResolveParent ==
    /\ splices = None
    /\ \E buf \in RangeBufs :
           parent_lines' = resolve_lines(line_program, info.address_offset, sort_by_begin(buf))
    /\ splices' = 0
    /\ UNCHANGED <<lines_before, inlinee, lookupVars, unitVars, prepareVars, sessionVars, rangesVars, nameVars, walkVars>>

SpliceInlinee ==
    /\ splices # None
    /\ splices < MaxSplices
    /\ \E buf \in RangeBufs, call \in CallSites :
           /\ inlinee' = [range_buf |-> sort_by_begin(buf),
                          call_line |-> call[1], call_file |-> call[2]]
           /\ parent_lines' = splice_lines(line_program, info.address_offset, parent_lines,
                                    sort_by_begin(buf), call[1], call[2])
    /\ lines_before' = parent_lines
    /\ splices' = splices + 1
    /\ UNCHANGED <<lookupVars, unitVars, prepareVars, sessionVars, rangesVars, nameVars, walkVars>>

LinesNext == ResolveParent \/ SpliceInlinee

SpecLines == LinesInit /\ [][LinesNext]_vars

(***************************************************************************)
(* Spec: one DwarfFunctionIterator over the units of a session.  A call of *)
(* next() is the steps from "idle" up to the step that appends to emitted  *)
(* or sets finished.                                                       *)
(***************************************************************************)
Init ==
    /\ NoLookup
    /\ NoLines
    /\ NewIterator
    /\ NoPrepare
    /\ NewSession
    /\ NoRangesParsed
    /\ NoNames
    /\ info \in Infos
    /\ line_program = NoLineProgram

\* `self.functions.next()` gives a function of the current unit
EmitFunction ==
    /\ pc = "idle"
    /\ ~finished
    /\ functions # <<>>
    /\ emitted' = Append(emitted, [kind |-> "function", function |-> Head(functions),
                                   unit |-> unit_index])
    /\ functions' = Tail(functions)
    /\ UNCHANGED <<unit_index, range_buf, seen_ranges, finished, pc, depth, skipped_depth,
                   stack, out, walked, lookupVars, unitVars, prepareVars, sessionVars, rangesVars, nameVars, linesVars>>

\* DwarfUnitIterator::next gives a unit: DwarfUnit::functions starts with
\* the unit DIE at depth 0, which is no function
start_unit(program) ==
    /\ pc = "idle"
    /\ ~finished
    /\ functions = <<>>
    /\ unit_index < MaxUnits
    /\ unit_index' = unit_index + 1
    /\ line_program' = program
    /\ pc' = "walking"
    /\ depth' = 0
    /\ skipped_depth' = None
    /\ stack' = <<>>
    /\ out' = <<>>
    /\ UNCHANGED <<functions, range_buf, seen_ranges, finished, walked, emitted, info,
                   lookupVars, linesVars, prepareVars>>

StartUnit ==
    /\ \E program \in UnitPrograms : start_unit(program)
    /\ UNCHANGED <<sessionVars, rangesVars, nameVars>>

\* DwarfUnitIterator::next passes over a unit without top DIE or an
\* eliminated unit (`Ok(None) => continue`)
skip_unit ==
    /\ pc = "idle"
    /\ ~finished
    /\ functions = <<>>
    /\ unit_index < MaxUnits
    /\ unit_index' = unit_index + 1
    /\ UNCHANGED <<functions, range_buf, seen_ranges, finished, pc, depth, skipped_depth,
                   stack, out, walked, emitted, lookupVars, unitVars, prepareVars,
                   linesVars>>

SkipUnit == skip_unit /\ UNCHANGED <<sessionVars, rangesVars, nameVars>>

\* DwarfUnitIterator::next gives an error: next() returns it
fail_unit ==
    /\ pc = "idle"
    /\ ~finished
    /\ functions = <<>>
    /\ unit_index < MaxUnits
    /\ unit_index' = unit_index + 1
    /\ emitted' = Append(emitted, [kind |-> "error", error |-> "CorruptedData",
                                   unit |-> unit_index + 1])
    /\ UNCHANGED <<functions, range_buf, seen_ranges, finished, pc, depth, skipped_depth,
                   stack, out, walked, lookupVars, unitVars, prepareVars, linesVars>>

\* mutant: the unit iterator does not move past the unit that failed
FailUnitAgain ==
    /\ pc = "idle"
    /\ ~finished
    /\ functions = <<>>
    /\ unit_index < MaxUnits
    /\ emitted' = Append(emitted, [kind |-> "error", error |-> "CorruptedData",
                                   unit |-> unit_index + 1])
    /\ UNCHANGED <<unit_index, functions, range_buf, seen_ranges, finished, pc, depth,
                   skipped_depth, stack, out, walked, lookupVars, unitVars, prepareVars,
                   sessionVars, rangesVars, nameVars, linesVars>>

FailUnit == fail_unit /\ UNCHANGED <<sessionVars, rangesVars, nameVars>>

\* one DIE of the unit: an iteration of the loop of DwarfUnit::functions
walk(d, die) ==
    LET id == Len(walked) + 1
        step == walk_die(d, die, id)
        pr == parse_ranges(die.attrs, info.kind)
    IN  /\ pc = "walking"
        /\ depth' = d
        /\ skipped_depth' = step.skipped_depth
        /\ stack' = step.stack
        /\ out' = step.out
        /\ seen_ranges' = step.seen
        /\ range_buf' = step.range_buf
        /\ walked' = Append(walked,
                         [unit |-> unit_index, depth |-> d, tag |-> die.tag,
                          attrs |-> die.attrs,
                          pending |-> Len(flush([stack |-> stack, out |-> out], d).stack),
                          ranges |-> pr.range_buf, outcome |-> step.outcome])
        /\ IF step.outcome \in Errors
           THEN /\ pc' = "idle"
                /\ functions' = failed_walk_functions(functions,
                                     [stack |-> step.stack, out |-> step.out])
                /\ emitted' = Append(emitted,
                                  [kind |-> "error", error |-> step.outcome,
                                   unit |-> unit_index])
           ELSE UNCHANGED <<pc, functions, emitted>>
        /\ UNCHANGED <<unit_index, finished, lookupVars, unitVars, prepareVars,
                       sessionVars, rangesVars, nameVars, linesVars>>

WalkDie ==
    /\ Len(walked) < MaxDies
    /\ \E d \in 1..(depth + 1), die \in Dies : walk(d, die)

\* next_dfs gives None: the rest of the stack is flushed and the unit's
\* functions become the iterator's
EndUnit ==
    /\ pc = "walking"
    /\ functions' = flush([stack |-> stack, out |-> out], 0).out
    /\ pc' = "idle"
    /\ stack' = <<>>
    /\ out' = <<>>
    /\ UNCHANGED <<unit_index, range_buf, seen_ranges, finished, depth, skipped_depth,
                   walked, emitted, lookupVars, unitVars, prepareVars, sessionVars, rangesVars, nameVars, linesVars>>

\* mutant: next() returns None whenever the current unit is drained, and
\* does not set finished
FinishEarly ==
    /\ pc = "idle"
    /\ ~finished
    /\ functions = <<>>
    /\ Len(emitted) < MaxDies + MaxUnits
    /\ emitted' = Append(emitted, [kind |-> "none", unit |-> unit_index])
    /\ UNCHANGED <<unit_index, functions, range_buf, seen_ranges, finished, pc, depth,
                   skipped_depth, stack, out, walked, lookupVars, unitVars, prepareVars,
                   sessionVars, rangesVars, nameVars, linesVars>>

\* no unit is left: next() sets finished and returns None
Finish ==
    /\ pc = "idle"
    /\ ~finished
    /\ functions = <<>>
    /\ unit_index = MaxUnits
    /\ finished' = TRUE
    /\ emitted' = Append(emitted, [kind |-> "none", unit |-> unit_index])
    /\ UNCHANGED <<unit_index, functions, range_buf, seen_ranges, pc, depth, skipped_depth,
                   stack, out, walked, lookupVars, unitVars, prepareVars, sessionVars, rangesVars, nameVars, linesVars>>

\* the items of kind "none" in emitted
nones == {i \in DOMAIN emitted : emitted[i].kind = "none"}

\* next() on a finished iterator returns None
NextAfterFinish ==
    /\ finished
    /\ Cardinality(nones) <= MaxNextAfterEnd
    /\ emitted' = Append(emitted, [kind |-> "none", unit |-> unit_index])
    /\ UNCHANGED <<unit_index, functions, range_buf, seen_ranges, finished, pc, depth,
                   skipped_depth, stack, out, walked, lookupVars, unitVars, prepareVars,
                   sessionVars, rangesVars, nameVars, linesVars>>

Next ==
    \/ EmitFunction \/ StartUnit \/ SkipUnit \/ FailUnit \/ WalkDie \/ EndUnit
    \/ Finish \/ NextAfterFinish

Spec == Init /\ [][Next]_vars

(***************************************************************************)
(* SpecTwice: DwarfDebugSession::functions twice on one session.  The      *)
(* first iterator reads the units from the file, as in Spec, and get_unit  *)
(* fills the cells; the second iterator finds the cells filled and walks   *)
(* the DIEs the first one walked.                                          *)
(***************************************************************************)
\* mutant: the second iterator takes over the set of the first
kept_seen_ranges == seen_ranges

\* `seen_ranges: BTreeSet::new()`
fresh_seen_ranges == {}

\* try_borrow_with on an empty cell: the cell keeps the unit that is read, and
\* from_unit prepares its line program
LoadUnit ==
    /\ run = 1
    /\ \E program \in UnitPrograms :
           /\ start_unit(program)
           /\ units' = Append(units, [state |-> "unit", line_program |-> program])
    /\ UNCHANGED <<run, first_run, rangesVars, nameVars>>

\* a unit without unit DIE, which the cell keeps as None, or a unit that
\* from_unit finds eliminated
LoadNoUnit ==
    /\ run = 1
    /\ skip_unit
    /\ units' = Append(units, [state |-> "none", line_program |-> NoLineProgram])
    /\ UNCHANGED <<run, first_run, rangesVars, nameVars>>

\* the header or from_unit gives an error: the cell stays empty, and "failed"
\* records that the unit of the file cannot be read
LoadFails ==
    /\ run = 1
    /\ fail_unit
    /\ units' = Append(units, [state |-> "failed", line_program |-> NoLineProgram])
    /\ UNCHANGED <<run, first_run, rangesVars, nameVars>>

\* DIEs below the unit DIEs of a session that is walked twice
MaxDiesTwice == 2

EndUnitFirst == run = 1 /\ EndUnit

\* the first iterator has returned None: functions() makes a second iterator
Restart ==
    /\ run = 1
    /\ finished
    /\ run' = 2
    /\ first_run' = [walked |-> walked, emitted |-> emitted]
    /\ unit_index' = 0
    /\ functions' = <<>>
    /\ range_buf' = <<>>
    /\ seen_ranges' = fresh_seen_ranges
    /\ finished' = FALSE
    /\ pc' = "idle"
    /\ depth' = 0
    /\ skipped_depth' = None
    /\ stack' = <<>>
    /\ out' = <<>>
    /\ walked' = <<>>
    /\ emitted' = <<>>
    /\ UNCHANGED <<units, lookupVars, unitVars, prepareVars, rangesVars, nameVars, linesVars>>

\* the cell of the unit the unit iterator comes to
cell == units[unit_index + 1]

\* the cell holds the unit: from_unit prepares the same line program again
ReuseUnit ==
    /\ run = 2
    /\ unit_index < MaxUnits
    /\ cell.state = "unit"
    /\ start_unit(cell.line_program)
    /\ UNCHANGED <<sessionVars, rangesVars, nameVars>>

\* the cell holds None, or from_unit finds the unit eliminated again
ReuseNoUnit ==
    /\ run = 2
    /\ unit_index < MaxUnits
    /\ cell.state = "none"
    /\ skip_unit
    /\ UNCHANGED <<sessionVars, rangesVars, nameVars>>

\* the cell is empty and the unit is read again, with the same error
LoadFailsAgain ==
    /\ run = 2
    /\ unit_index < MaxUnits
    /\ cell.state = "failed"
    /\ fail_unit
    /\ UNCHANGED <<sessionVars, rangesVars, nameVars>>

\* the DIEs of a unit in a history of walked DIEs
dies_of(history, u) == SelectSeq(history, LAMBDA w : w.unit = u)

\* DIEs of the current unit the second iterator has yet to walk
dies_left ==
    Len(dies_of(first_run.walked, unit_index)) - Len(dies_of(walked, unit_index))

\* the DIE the first iterator found where the second one is
die_again ==
    dies_of(first_run.walked, unit_index)[Len(dies_of(walked, unit_index)) + 1]

\* one DIE of the unit: the first iterator walks any DIE, the second one the
\* DIE the first one found at the same place
WalkTwice ==
    /\ IF run = 1
       THEN Len(walked) < MaxDiesTwice /\ Len(walked) < MaxDies
       ELSE dies_left > 0
    /\ \E d \in 1..MaxDiesTwice, die \in Dies :
           /\ IF run = 1
              THEN d <= depth + 1
              ELSE d = die_again.depth /\ die = Die(die_again.tag, die_again.attrs)
           /\ walk(d, die)

EndUnitAgain ==
    /\ run = 2
    /\ dies_left = 0
    /\ EndUnit

TwiceNext ==
    \/ EmitFunction \/ LoadUnit \/ LoadNoUnit \/ LoadFails \/ EndUnitFirst
    \/ Finish \/ Restart
    \/ ReuseUnit \/ ReuseNoUnit \/ LoadFailsAgain \/ EndUnitAgain
    \/ WalkTwice

SpecTwice == Init /\ [][TwiceNext]_vars

(***************************************************************************)
(* SpecUnits: the units of one session as DwarfUnit::from_unit sees them:  *)
(* the low_pc gimli gives for the unit (0 when the unit DIE has none) and  *)
(* whether the unit DIE has DW_AT_ranges.                                  *)
(***************************************************************************)
UnitHeaders == [low_pc : {0, 1}, ranges : BOOLEAN]

\* mutant: units that look eliminated are skipped in relocatable objects too
from_unit_any_kind(header, kind) ==
    IF header.low_pc = 0 /\ ~header.ranges
    THEN "none"
    ELSE "unit"

\* DwarfUnit::from_unit: Ok(None) for a unit the linker has eliminated
from_unit(header, kind) ==
    IF kind # "Relocatable" /\ header.low_pc = 0 /\ ~header.ranges
    THEN "none"
    ELSE "unit"

\* from_unit gives Ok(Some(unit)): DwarfUnitIterator::next returns the unit
OpenUnit ==
    /\ \E header \in UnitHeaders, program \in UnitPrograms :
           /\ from_unit(header, info.kind) = "unit"
           /\ start_unit(program)
           /\ units' = Append(units, [state |-> "unit", line_program |-> program,
                                      header |-> header])
    /\ UNCHANGED <<run, first_run, rangesVars, nameVars>>

\* from_unit gives Ok(None): DwarfUnitIterator::next goes on to the next header
PassUnit ==
    /\ \E header \in UnitHeaders :
           /\ from_unit(header, info.kind) = "none"
           /\ skip_unit
           /\ units' = Append(units, [state |-> "none", line_program |-> NoLineProgram,
                                      header |-> header])
    /\ UNCHANGED <<run, first_run, rangesVars, nameVars>>

\* one DIE of an opened unit
WalkUnitDie ==
    /\ Len(walked) < MaxDiesTwice
    /\ \E d \in 1..(depth + 1), die \in Dies : walk(d, die)

UnitsNext ==
    \/ EmitFunction \/ OpenUnit \/ PassUnit \/ WalkUnitDie \/ EndUnit \/ Finish

SpecUnits == Init /\ [][UnitsNext]_vars

(***************************************************************************)
(* SpecNames: the name DwarfUnit::functions gives one function.  The       *)
(* .debug_info section of the session has three units; a DIE is named by   *)
(* its unit (1..3) and its offset in the unit, and unit headers take no    *)
(* room, so that the DIE at offset 0 of a unit lies at the unit's section  *)
(* offset.  No BcSymbolMap is loaded: resolve_cow_name returns its input.  *)
(***************************************************************************)
\* DwarfInfo.headers with what get_unit gives for each: the second unit has
\* no unit DIE
NameUnits ==
    <<[section_offset |-> 1, length |-> 2, top_die |-> TRUE],
      [section_offset |-> 3, length |-> 1, top_die |-> FALSE],
      [section_offset |-> 4, length |-> 3, top_die |-> TRUE]>>

DieRef(unit, at) == [unit |-> unit, offset |-> at]

\* the place of a DIE in the section
section_offset_of(ref) == NameUnits[ref.unit].section_offset + ref.offset

\* the DIEs of the section by section offset, <<>> for a null entry: a DIE
\* with a linkage name, a chain of references 2 -> 4 -> 5, a DIE with a name
\* behind another attribute, and a null entry
NameDies ==
    <<<<Attr("linkage_name", "strp", 5)>>,
      <<Attr("specification", "debug_info_ref", 4)>>,
      <<>>,
      <<Attr("abstract_origin", "unit_ref", 1)>>,
      <<Attr("decl_line", "udata", 7), Attr("name", "strp", 4)>>,
      <<>>>>

\* where the function DIE that is named can lie: first DIE of the first
\* unit, second DIE of the third unit
SubjectPlaces == {DieRef(1, 0), DieRef(3, 1)}

\* the attributes a function DIE is made of: linkage names, one of them with
\* a value that is no string, names, references within the unit and by
\* section offset, a reference attribute with a value that is no reference,
\* and an attribute that plays no part
NameAttrs ==
    {Attr("linkage_name", "strp", 0), Attr("MIPS_linkage_name", "strp", 1),
     Attr("linkage_name", "data", 0),
     Attr("name", "strp", 2), Attr("name", "strp", 3),
     Attr("abstract_origin", "unit_ref", 0), Attr("abstract_origin", "unit_ref", 1),
     Attr("abstract_origin", "unit_ref", 2),
     Attr("specification", "debug_info_ref", 0), Attr("specification", "debug_info_ref", 1),
     Attr("specification", "debug_info_ref", 3),
     Attr("abstract_origin", "data", 0),
     Attr("decl_line", "udata", 7)}

NameEntries == UNION {[1..n -> NameAttrs] : n \in 0..MaxAttrs}

\* the sorted range buffer of the subject
SubjectRanges == <<R(2, 3)>>

\* symbol tables: empty, a named symbol at 2, a named symbol at 1, a symbol
\* without name at 1
SymbolMaps ==
    {<<>>,
     <<[address |-> 2, name |-> <<"S2">>]>>,
     <<[address |-> 1, name |-> <<"S1">>]>>,
     <<[address |-> 1, name |-> <<>>]>>}

Producers == {"Dart VM", "clang"}

Name(string, mangling) == [string |-> string, mangling |-> mangling]

\* the attribute that was not found
NoAttr == Attr("none", "none", None)

\* the attributes of the DIE at a place: those of the subject at its place
die_at(ref) ==
    IF ref = subject.at THEN subject.attrs ELSE NameDies[section_offset_of(ref)]

\* the strings of .debug_str, which a value of form "strp" points into
DebugStr == <<"L", "M", "A", "B", "C", "L1">>

\* UnitRef::string_value: <<>> stands for None, which attr_string gives for
\* a value that is no string
string_value(attr) == IF attr.form = "strp" THEN <<DebugStr[attr.value + 1]>> ELSE <<>>

\* SymbolMap::lookup_exact: the symbol that starts at the address
lookup_exact(symbol_map, addr) ==
    SelectSeq(symbol_map, LAMBDA symbol : symbol.address = addr)

\* DwarfUnit::resolve_symbol_name: <<>> stands for None
resolve_symbol_name(symbol_map, addr) ==
    LET found == lookup_exact(symbol_map, addr)
    IN  IF found = <<>> \/ found[1].name = <<>>
        THEN <<>>
        ELSE <<Name(found[1].name[1], "Mangled")>>

\* DwarfInfo::find_unit_offset: [err] or the unit and the offset in it
find_unit_offset(at) ==
    LET search_result ==
            BinarySearch([k \in DOMAIN NameUnits |-> NameUnits[k].section_offset], at)
        index == IF search_result.ok THEN search_result.idx ELSE search_result.idx - 1
        unit == NameUnits[index + 1]
    IN  IF ~search_result.ok /\ search_result.idx = 0
        THEN [err |-> "InvalidUnitRef"]
        ELSE IF unit.top_die /\ at - unit.section_offset < unit.length
        THEN [err |-> "none", ref |-> DieRef(index + 1, at - unit.section_offset)]
        ELSE [err |-> "InvalidUnitRef"]

\* the attributes resolve_function_name keeps while it scans
NothingScanned == [returned |-> NoAttr, fallback_name |-> NoAttr, reference_target |-> NoAttr]

RECURSIVE scan_attrs_keep_first(_, _)
\* mutant: a later name or reference does not replace an earlier one
scan_attrs_keep_first(attrs, st) ==
    IF attrs = <<>> THEN st
    ELSE LET attr == Head(attrs)
         IN  IF attr.name \in {"linkage_name", "MIPS_linkage_name"}
             THEN [st EXCEPT !.returned = attr]
             ELSE IF attr.name = "name" /\ st.fallback_name = NoAttr
             THEN scan_attrs_keep_first(Tail(attrs), [st EXCEPT !.fallback_name = attr])
             ELSE IF attr.name \in {"abstract_origin", "specification"}
                     /\ st.reference_target = NoAttr
             THEN scan_attrs_keep_first(Tail(attrs), [st EXCEPT !.reference_target = attr])
             ELSE scan_attrs_keep_first(Tail(attrs), st)

RECURSIVE scan_attrs(_, _)
\* the `while let Some(attr) = attrs.next()?` loop of resolve_function_name
scan_attrs(attrs, st) ==
    IF attrs = <<>> THEN st
    ELSE LET attr == Head(attrs)
         IN  IF attr.name \in {"linkage_name", "MIPS_linkage_name"}
             THEN [st EXCEPT !.returned = attr]
             ELSE IF attr.name = "name"
             THEN scan_attrs(Tail(attrs), [st EXCEPT !.fallback_name = attr])
             ELSE IF attr.name \in {"abstract_origin", "specification"}
             THEN scan_attrs(Tail(attrs), [st EXCEPT !.reference_target = attr])
             ELSE scan_attrs(Tail(attrs), st)

\* Ok(None)
NoNameFound == [kind |-> "none"]

\* `string_value(..).map(|n| Name::new(n, mangling, language))`
name_of(attr, mangling) ==
    IF string_value(attr) = <<>>
    THEN NoNameFound
    ELSE [kind |-> "name", name |-> Name(string_value(attr)[1], mangling)]

\* UnitRef::resolve_reference with the closure resolve_function_name gives
\* it, for the reference attr of the DIE self: no name, an error, or the DIE
\* for which resolve_function_name is called next
resolve_reference(self, attr) ==
    LET target ==
            IF attr.form = "unit_ref" THEN [err |-> "none", ref |-> DieRef(self.unit, attr.value)]
            ELSE IF attr.form = "debug_info_ref" THEN find_unit_offset(attr.value)
            ELSE [err |-> "no reference"]
    IN  IF target.err = "no reference" THEN NoNameFound
        ELSE IF target.err # "none" THEN [kind |-> "error", error |-> target.err]
        ELSE IF target.ref.offset >= NameUnits[target.ref.unit].length
        THEN [kind |-> "error", error |-> "OffsetOutOfBounds"]
        ELSE IF die_at(target.ref) = <<>> THEN NoNameFound
        ELSE IF NameUnits[self.unit].section_offset
                    # NameUnits[target.ref.unit].section_offset
                \/ self.offset # target.ref.offset
        THEN [kind |-> "follow", to |-> target.ref]
        ELSE NoNameFound

\* one call of UnitRef::resolve_function_name, for the DIE self with the
\* attributes attrs, up to its return or its call of itself
resolve_function_name(self, attrs) ==
    LET st == scan_attrs(attrs, NothingScanned)
    IN  IF st.returned # NoAttr THEN name_of(st.returned, "Mangled")
        ELSE IF st.fallback_name # NoAttr THEN name_of(st.fallback_name, "Unmangled")
        ELSE IF st.reference_target # NoAttr THEN resolve_reference(self, st.reference_target)
        ELSE NoNameFound

\* mutant: an error of resolve_function_name becomes the name
resolve_dwarf_name_with_error(result) ==
    IF result.kind = "name" THEN <<result.name>>
    ELSE IF result.kind = "error" THEN <<Name(result.error, "Unmangled")>>
    ELSE <<>>

\* DwarfUnit::resolve_dwarf_name: `.ok().flatten()`
resolve_dwarf_name(result) ==
    IF result.kind = "name" THEN <<result.name>> ELSE <<>>

\* mutant: the symbol table is asked for every function
skips_symbol_table_never(prefer_dwarf_names, inline) == FALSE

\* `self.prefer_dwarf_names || inline`
skips_symbol_table(prefer_dwarf_names, inline) == prefer_dwarf_names \/ inline

\* `Name::new("", NameMangling::Unmangled, self.language)`
EmptyName == Name("", "Unmangled")

NamesInit ==
    /\ NoLookup
    /\ NoLines
    /\ NewIterator
    /\ NoPrepare
    /\ NewSession
    /\ NoRangesParsed
    /\ NoNames
    /\ info \in Infos
    /\ line_program = NoLineProgram

\* DwarfUnit::functions comes to the naming of a function: the symbol table
\* is asked unless the unit prefers DWARF names or the function is inline,
\* and `or_else` calls resolve_dwarf_name when there is no symbol name
LookupSymbol ==
    /\ subject = NoSubject
    /\ \E inline \in BOOLEAN, producer \in Producers, symbol_map \in SymbolMaps,
          at \in SubjectPlaces, attrs \in NameEntries :
           LET skipped == skips_symbol_table(producer = "Dart VM", inline)
               symbol_name ==
                   IF skipped THEN <<>>
                   ELSE resolve_symbol_name(symbol_map,
                                            function_address(SubjectRanges,
                                                             info.address_offset))
           IN  /\ subject' = [inline |-> inline, producer |-> producer,
                              symbol_map |-> symbol_map, begin |-> SubjectRanges[1].begin,
                              at |-> at, attrs |-> attrs]
               /\ symbol_lookups' = IF skipped THEN 0 ELSE 1
               /\ function_name' = symbol_name
               /\ resolving' = IF symbol_name = <<>> THEN at ELSE NoDie
    /\ UNCHANGED <<name_result, lookupVars, unitVars, prepareVars, sessionVars, rangesVars,
                   linesVars, walkVars>>

\* a call of resolve_function_name: it returns, or it calls itself for the
\* DIE its reference leads to and returns what that call returns
ResolveName ==
    /\ resolving # NoDie
    /\ name_result = Pending
    /\ LET result == resolve_function_name(resolving, die_at(resolving))
       IN  IF result.kind = "follow"
           THEN resolving' = result.to /\ UNCHANGED name_result
           ELSE name_result' = result /\ UNCHANGED resolving
    /\ UNCHANGED <<subject, symbol_lookups, function_name, lookupVars, unitVars,
                   prepareVars, sessionVars, rangesVars, linesVars, walkVars>>

\* resolve_dwarf_name has returned: `.unwrap_or_else(|| Name::new("", ..))`
NameFunction ==
    /\ name_result # Pending
    /\ function_name = <<>>
    /\ function_name' =
           IF resolve_dwarf_name(name_result) = <<>>
           THEN <<EmptyName>>
           ELSE resolve_dwarf_name(name_result)
    /\ UNCHANGED <<subject, resolving, name_result, symbol_lookups, lookupVars, unitVars,
                   prepareVars, sessionVars, rangesVars, linesVars, walkVars>>

NamesNext == LookupSymbol \/ ResolveName \/ NameFunction

SpecNames == NamesInit /\ [][NamesNext]_vars

\* the calls of resolve_function_name follow each other without waiting
SpecNamesLive == SpecNames /\ WF_vars(ResolveName) /\ WF_vars(NameFunction)

(***************************************************************************)
(* SpecRanges: parse_ranges on the attributes of one DIE, with an empty    *)
(* range buffer as the DIE loop passes it.                                 *)
(***************************************************************************)
\* range lists: valid entries, an inverted entry before, between and after
\* valid ones, and an entry that cannot be read
RangeLists ==
    {<<R(1, 2)>>,
     <<R(3, 4), R(1, 2)>>,
     <<Failure("InvalidAddressRange")>>,
     <<Failure("InvalidAddressRange"), R(3, 4)>>,
     <<R(1, 2), Failure("InvalidAddressRange"), R(3, 4)>>,
     <<R(1, 2), Failure("InvalidAddressRange")>>,
     <<Failure("UnexpectedEof"), R(1, 2)>>,
     <<R(1, 2), Failure("UnexpectedEof")>>,
     <<Failure("InvalidAddressRange"), Failure("UnexpectedEof")>>}

\* the attributes of the parsed DIEs: low_pc and high_pc as addresses, as
\* indices into .debug_addr (one of them past its end), high_pc as an
\* offset, low_pc in a form that is not supported, and the range lists
EntryAttrs ==
    {Attr("low_pc", "addr", 0), Attr("low_pc", "addr", 1),
     Attr("low_pc", "addrx", 0), Attr("low_pc", "addrx", 1),
     Attr("low_pc", "addrx", 2), Attr("low_pc", "udata", 1),
     Attr("high_pc", "addr", 3), Attr("high_pc", "addr", 1),
     Attr("high_pc", "addrx", 0), Attr("high_pc", "addrx", 1),
     Attr("high_pc", "udata", 2)}
    \cup {Attr("ranges", "rnglist", l) : l \in RangeLists}

Entries == UNION {[1..n -> EntryAttrs] : n \in 0..MaxAttrs}

RangesInit ==
    /\ NoLookup
    /\ NoLines
    /\ NewIterator
    /\ NoPrepare
    /\ NewSession
    /\ NoRangesParsed
    /\ NoNames
    /\ info \in Infos
    /\ line_program = NoLineProgram

\* `range_buf.clear(); self.parse_ranges(entry, &mut range_buf)`
ParseRanges ==
    /\ entry = NoEntry
    /\ \E attrs \in Entries :
           /\ entry' = attrs
           /\ parse_result' = parse_ranges(attrs, info.kind)
    /\ UNCHANGED <<lookupVars, unitVars, prepareVars, sessionVars, nameVars, linesVars,
                   walkVars>>

RangesNext == ParseRanges

SpecRanges == RangesInit /\ [][RangesNext]_vars

(***************************************************************************)
(* SpecPrepare: one line program.  PrepareRow is an iteration of the loop  *)
(* of DwarfLineProgram::prepare for the next row of the state machine,     *)
(* PrepareEnd is the end of the row stream, GetRows a query of the         *)
(* prepared program.                                                       *)
(***************************************************************************)
\* the rows of the modelled streams: addresses 0..3, and a second (file, line)
\* pair at address 2
ProgramRows ==
    {Row(a, 1, 10) : a \in 0..3} \cup {Row(2, 2, 11)}
    \cup {EndSequence(a) : a \in 0..3}

\* the ranges get_rows is asked for
QueryRanges == {r \in [begin : 0..4, end : 0..4] : r.begin < r.end}

PrepareInit ==
    /\ NoLookup
    /\ NoLines
    /\ NewIterator
    /\ NoPrepare
    /\ NewSession
    /\ NoRangesParsed
    /\ NoNames
    /\ info = [address_offset |-> 0, kind |-> "Other"]
    /\ line_program = NoLineProgram

\* `while let Ok(Some((_, &program_row))) = state_machine.next_row()`
PrepareRow ==
    /\ ~line_program.present
    /\ Len(stream) < MaxRows
    /\ \E row \in ProgramRows :
           /\ stream' = Append(stream, row)
           /\ prep' = prepare_row(prep, row)
    /\ UNCHANGED <<query, returned, lookupVars, unitVars, sessionVars, rangesVars, nameVars, linesVars,
                   walkVars>>

\* the row stream ends: the open sequence is closed and the sequences sorted
PrepareEnd ==
    /\ ~line_program.present
    /\ line_program' = [present |-> TRUE, num_files |-> NumFiles,
                        sequences |-> sort_by_start(close_open_sequence(prep))]
    /\ UNCHANGED <<info, prepareVars, sessionVars, rangesVars, nameVars, lookupVars, linesVars, walkVars>>

\* DwarfLineProgram::get_rows
GetRows ==
    /\ line_program.present
    /\ \E range \in QueryRanges :
           /\ query' = range
           /\ returned' = get_rows(line_program.sequences, range)
    /\ UNCHANGED <<stream, prep, lookupVars, unitVars, sessionVars, rangesVars, nameVars, linesVars,
                   walkVars>>

PrepareNext == PrepareRow \/ PrepareEnd \/ GetRows

SpecPrepare == PrepareInit /\ [][PrepareNext]_vars

(***************************************************************************)
(* Properties.                                                             *)
(***************************************************************************)
\* the relative address of the last lookup
rel_addr == offset_addr(format, lookup_addr)

\* a lookup has built an iterator and next() was not called yet
FreshLookup == lookup_addr # None /\ rel_addr # None /\ results = <<>>

\* C2: for ranges[i] < rel < ranges[i+1] the chain of lookup(addr) starts at
\* the source location of range i, source_locations[source_location_start + i].
C2_InteriorStartsAtOwnRange ==
    \A i \in 0..(Len(format.ranges) - 2) :
        (FreshLookup /\ At(format.ranges, i) < rel_addr /\ rel_addr < At(format.ranges, i + 1))
            => source_location_idx = source_location_start(format) + i

\* C3: for rel = ranges[k] the chain of lookup(addr) starts at
\* source_locations[source_location_start + k].
C3_ExactHitStartsAtRange ==
    \A k \in 0..(Len(format.ranges) - 1) :
        (FreshLookup /\ rel_addr = At(format.ranges, k))
            => source_location_idx = Len(format.source_locations) - Len(format.ranges) + k

\* a lookup has hit the second range of a cache exactly
C3_Witness ==
    /\ FreshLookup
    /\ Len(format.ranges) = 2
    /\ rel_addr = At(format.ranges, 1)
    /\ Len(format.source_locations) = 3
    /\ source_location_idx = 2

\* C4: for rel < ranges[0] in a non-empty cache the first next() of the
\* iterator of lookup(addr) returns None.
C4_BelowFirstRangeIsEmpty ==
    (/\ lookup_addr # None
     /\ rel_addr # None
     /\ format.ranges # <<>>
     /\ rel_addr < At(format.ranges, 0)
     /\ Len(results) >= 1)
        => results[1] = "none"

\* the source location entry the k-th yield gave
yielded_entry(k) == At(format.source_locations, yielded[k])

\* every inlined_into_idx is smaller than the index of its entry
InlinedIntoEarlier ==
    \A i \in 0..(Len(format.source_locations) - 1) :
        At(format.source_locations, i).inlined_into_idx < i

\* C5: the iterator yields the start location first, then the entry named by
\* the inlined_into_idx of the entry yielded last; after an entry without
\* inlined_into_idx it returns None and keeps returning None; when every
\* inlined_into_idx is smaller than its entry's index, at most
\* len(source_locations) entries are yielded.
C5_IteratorFollowsInlineChain ==
    /\ yielded # <<>> => yielded[1] = lookup_idx(format, lookup_addr)
    /\ \A k \in 1..(Len(yielded) - 1) :
           yielded[k + 1] = yielded_entry(k).inlined_into_idx
    /\ \A n \in 1..(Len(results) - 1) :
           /\ (results[n] = "some" /\ n = Len(yielded)
                  /\ yielded_entry(n).inlined_into_idx = None)
                  => results[n + 1] = "none"
           /\ results[n] = "none" => results[n + 1] = "none"
    /\ \A n \in 1..Len(yielded) : results[n] = "some"
    /\ InlinedIntoEarlier => Len(yielded) <= Len(format.source_locations)

\* an iterator has yielded a chain of three entries and then None twice
C5_Witness ==
    /\ Len(yielded) = 3
    /\ yielded[1] # yielded[2]
    /\ InlinedIntoEarlier
    /\ Len(results) = 5
    /\ results[4] = "none"
    /\ results[5] = "none"

\* the adjusted addresses a line record of the line model can cover
AdjustedAddrs == {offset(a, off) : a \in Addrs, off \in 0..1}

\* a record of known size covers address a
covers(record, a) ==
    record.size # None /\ record.address <= a /\ a < record.address + record.size

\* a lies in one of the adjusted ranges of the last inlinee
in_inlinee(a) ==
    \E i \in DOMAIN inlinee.range_buf :
        /\ offset(inlinee.range_buf[i].begin, info.address_offset) <= a
        /\ a < offset(inlinee.range_buf[i].end, info.address_offset)

\* the last inlinee carried call_line and call_file
HasCallSite == inlinee.call_line # None /\ inlinee.call_file # None

RECURSIVE functions_of(_)
\* a function and the functions nested in its inlinees
functions_of(f) ==
    {f} \cup UNION {functions_of(f.inlinees[i]) : i \in DOMAIN f.inlinees}

\* the functions the iterator has emitted, inlinees included
EmittedFunctions ==
    UNION {functions_of(emitted[i].function) :
               i \in {j \in DOMAIN emitted : emitted[j].kind = "function"}}

\* the functions that exist anywhere: emitted, waiting in the iterator, or
\* under construction in the walk
AllFunctions ==
    EmittedFunctions
    \cup UNION {functions_of(functions[i]) : i \in DOMAIN functions}
    \cup UNION {functions_of(out[i]) : i \in DOMAIN out}
    \cup UNION {functions_of(stack[i].function) : i \in DOMAIN stack}

\* the smallest begin and the summed size of the ranges parsed for a DIE
min_begin(ranges) ==
    CHOOSE b \in {ranges[i].begin : i \in DOMAIN ranges} :
        \A i \in DOMAIN ranges : b <= ranges[i].begin

RECURSIVE sum_sizes(_, _)
sum_sizes(ranges, n) ==
    IF n = 0 THEN 0 ELSE sum_sizes(ranges, n - 1) + ranges[n].end - ranges[n].begin

\* the (address, size) of the function of walked DIE i
key_of(i) ==
    <<min_begin(walked[i].ranges) - info.address_offset,
      sum_sizes(walked[i].ranges, Len(walked[i].ranges))>>

\* C1: no two emitted non-inline functions have the same (address, size); a
\* subprogram whose (address, size) is that of an earlier accepted subprogram
\* produces no function.
C1_NoDuplicateAddressSize ==
    /\ \A f, g \in EmittedFunctions :
           (~f.inline /\ ~g.inline /\ f.address = g.address /\ f.size = g.size) => f = g
    /\ \A i, j \in DOMAIN walked :
           (/\ i < j
            /\ walked[i].tag = "subprogram" /\ walked[i].outcome = "pushed"
            /\ walked[j].tag = "subprogram" /\ walked[j].ranges # <<>>
            /\ key_of(i) = key_of(j))
               => \A f \in AllFunctions : f.die # j

\* a subprogram of the second unit repeated the (address, size) of an emitted
\* function of the first unit, and the second unit has been drained
C1_Witness ==
    /\ pc = "idle"
    /\ unit_index = 2
    /\ functions = <<>>
    /\ \E i, j \in DOMAIN walked :
           /\ walked[i].unit = 1 /\ walked[j].unit = 2
           /\ walked[i].outcome = "pushed" /\ walked[j].outcome = "duplicate"
           /\ key_of(i) = key_of(j)
           /\ \E f \in EmittedFunctions : f.die = i /\ ~f.inline

\* C7: every emitted Function with inline = true has an empty lines list.
C7_InlineFunctionsHaveNoLines ==
    \A f \in EmittedFunctions : f.inline => f.lines = <<>>

\* walked DIE i was skipped for its empty range buffer or as a duplicate
skipped_function(i) == walked[i].outcome \in {"empty", "duplicate"}

\* walked DIE j lies in the subtree of walked DIE i
in_subtree(i, j) ==
    /\ i < j
    /\ walked[j].unit = walked[i].unit
    /\ \A k \in (i + 1)..j : walked[k].depth > walked[i].depth

\* C8: a DIE skipped for its empty range buffer or as a duplicate produces no
\* Function, nor does any DIE of its subtree; the first later DIE of the unit
\* that is not deeper than the skipped DIE is walked again.
C8_SkippedSubtreeProducesNothing ==
    \A i \in DOMAIN walked :
        skipped_function(i) =>
            /\ \A f \in AllFunctions : f.die # i
            /\ \A j \in DOMAIN walked :
                   in_subtree(i, j) =>
                       /\ walked[j].outcome = "skipped"
                       /\ \A f \in AllFunctions : f.die # j
            /\ \A j \in DOMAIN walked :
                   (/\ i < j
                    /\ walked[j].unit = walked[i].unit
                    /\ walked[j].depth <= walked[i].depth
                    /\ \A k \in (i + 1)..(j - 1) : walked[k].depth > walked[i].depth)
                       => walked[j].outcome # "skipped"

\* an inlined subroutine with ranges was passed over below a skipped
\* subprogram, and the subprogram after the subtree was pushed
C8_Witness ==
    \E i, j, k \in DOMAIN walked :
        /\ skipped_function(i)
        /\ j = i + 1 /\ in_subtree(i, j)
        /\ walked[j].tag = "inlined_subroutine" /\ walked[j].ranges # <<>>
        /\ k = j + 1 /\ walked[k].unit = walked[i].unit
        /\ walked[k].depth = walked[i].depth
        /\ walked[k].outcome = "pushed"

\* C9: every emitted Function has the summed size of the ranges parsed for
\* its DIE and the smallest range begin minus address_offset as its address.
C9_SizeSumAddressMin ==
    \A f \in EmittedFunctions :
        /\ f.size = sum_sizes(walked[f.die].ranges, Len(walked[f.die].ranges))
        /\ f.address = min_begin(walked[f.die].ranges) - info.address_offset

\* a function whose ranges were parsed out of order has been emitted
C9_Witness ==
    \E f \in EmittedFunctions :
        /\ Len(walked[f.die].ranges) = 2
        /\ walked[f.die].ranges[1].begin > walked[f.die].ranges[2].begin
        /\ info.address_offset = 1

C11_LinesEndWithinFunction ==
    \A f \in EmittedFunctions :
        \A i \in DOMAIN f.lines :
            f.lines[i].size # None
                => f.lines[i].address + f.lines[i].size <= f.address + f.size

\* the walk of DIE i ended with an error
error_outcome(i) ==
    walked[i].outcome \notin {"skipped", "other", "empty", "duplicate", "pushed"}

\* the units whose load or walk gave an error item
failed_units == {emitted[j].unit : j \in {k \in DOMAIN emitted : emitted[k].kind = "error"}}

\* C12: a unit that fails to load or to walk gives its error as an item, no
\* function of that unit is emitted or kept for later, and next() returns
\* None only when no unit is left.
C12_ErrorIsItemAndUnitIsDropped ==
    /\ \A i \in DOMAIN walked :
           error_outcome(i) =>
               /\ \E j \in DOMAIN emitted :
                      /\ emitted[j].kind = "error"
                      /\ emitted[j].error = walked[i].outcome
                      /\ emitted[j].unit = walked[i].unit
               /\ \A k \in DOMAIN walked : k > i => walked[k].unit > walked[i].unit
    /\ \A j \in DOMAIN emitted :
           emitted[j].kind = "function" => emitted[j].unit \notin failed_units
    /\ \A k \in DOMAIN functions : walked[functions[k].die].unit \notin failed_units
    /\ \A j \in DOMAIN emitted : emitted[j].kind = "none" => emitted[j].unit = MaxUnits

\* the walk of the first unit failed after it had pushed a function; the
\* next call went on to the second unit and emitted a function of it
C12_Witness ==
    \E i, k \in DOMAIN walked, j \in DOMAIN emitted :
        /\ i < k
        /\ walked[i].unit = 1 /\ walked[i].outcome = "pushed"
        /\ walked[k].unit = 1 /\ error_outcome(k)
        /\ emitted[j].kind = "function" /\ emitted[j].unit = 2
        /\ \E e \in DOMAIN emitted : e < j /\ emitted[e].kind = "error" /\ emitted[e].unit = 1

\* C13: once next() has returned None, every later call returns None.
C13_FusedAfterNone ==
    \A i, j \in DOMAIN emitted :
        (i < j /\ emitted[i].kind = "none") => emitted[j].kind = "none"

\* next() was called after the iterator had emitted a function and finished
C13_Witness ==
    /\ finished
    /\ Cardinality(nones) = MaxNextAfterEnd + 1
    /\ \E j \in DOMAIN emitted : emitted[j].kind = "function"

\* C14 as stated: once next() has yielded an Err item, every later call
\* returns None.
C14_FusedAfterError ==
    \A i, j \in DOMAIN emitted :
        (i < j /\ emitted[i].kind = "error") => emitted[j].kind = "none"

\* C14 amended: once next() has yielded the Err item of a unit, every later
\* call returns an item of a later unit or None.
C14_AfterErrorLaterUnits ==
    \A i, j \in DOMAIN emitted :
        (i < j /\ emitted[i].kind = "error")
            => \/ emitted[j].kind = "none"
               \/ emitted[j].unit > emitted[i].unit

\* the Err item of the first unit is followed by a function of the second
\* unit and then by None
C14_Witness ==
    \E i, j, k \in DOMAIN emitted :
        /\ i < j /\ j < k
        /\ emitted[i].kind = "error" /\ emitted[i].unit = 1
        /\ emitted[j].kind = "function" /\ emitted[j].unit = 2
        /\ emitted[k].kind = "none"

\* DIE i was handed to parse_ranges
parsed(i) == walked[i].outcome \notin {"skipped", "other"}

\* the ranges the range lists of a DIE's attributes expand to
listed_ranges(attrs) ==
    UNION {Range(attrs[a].value) : a \in {b \in DOMAIN attrs : attrs[b].name = "ranges"}}

\* the values of the attributes `name` of form `form`
attr_values(attrs, name, form) ==
    {attrs[a].value : a \in {b \in DOMAIN attrs : attrs[b].name = name /\ attrs[b].form = form}}

\* C19: in an object that is not relocatable no range of a parsed DIE's buffer
\* begins at 0; in a relocatable object the listed ranges that begin at 0 are
\* in the buffer, and a low_pc of 0 with a relative high_pc gives its range.
C19_ZeroBeginOnlyInRelocatable ==
    \A i \in DOMAIN walked :
        parsed(i) =>
            /\ info.kind # "Relocatable"
                   => \A k \in DOMAIN walked[i].ranges : walked[i].ranges[k].begin # 0
            /\ info.kind = "Relocatable"
                   => /\ \A r \in listed_ranges(walked[i].attrs) :
                              r.begin = 0 => r \in Range(walked[i].ranges)
                      /\ \A h \in attr_values(walked[i].attrs, "high_pc", "udata") :
                              (/\ listed_ranges(walked[i].attrs) = {}
                               /\ 0 \in attr_values(walked[i].attrs, "low_pc", "addr")
                               /\ h > 0)
                                  => walked[i].ranges = <<[begin |-> 0, end |-> h]>>

\* in an object that is not relocatable a subprogram at low_pc 0 and an
\* inlined subroutine whose range list begins at 0 were parsed to no range
C19_Witness ==
    /\ info.kind # "Relocatable"
    /\ \E i, j \in DOMAIN walked :
           /\ parsed(i) /\ walked[i].tag = "subprogram"
           /\ 0 \in attr_values(walked[i].attrs, "low_pc", "addr")
           /\ walked[i].ranges = <<>>
           /\ parsed(j) /\ walked[j].tag = "inlined_subroutine"
           /\ \E r \in listed_ranges(walked[j].attrs) : r.begin = 0
           /\ walked[j].ranges = <<>>

\* a DIE without range list whose absolute high_pc lies below its low_pc
inverted(attrs) ==
    /\ listed_ranges(attrs) = {}
    /\ \E l \in attr_values(attrs, "low_pc", "addr"),
          h \in attr_values(attrs, "high_pc", "addr") : h < l

prep_before(k) == prepare_rows(NewPrepare, SubSeq(stream, 1, k - 1))

\* row k of the stream takes the else branch of prepare: no end_sequence, not
\* at address 0, not below the previous accepted row
accepted(k) ==
    /\ ~stream[k].end_sequence
    /\ stream[k].address # 0
    /\ stream[k].address >= prep_before(k).prev_address

\* rows k - 1 and k are accepted rows with the same address
repeated(k) ==
    /\ k >= 2
    /\ accepted(k - 1)
    /\ accepted(k)
    /\ stream[k - 1].address = stream[k].address

\* the rows of the sequence the last row of the stream belongs to or closes
current_rows ==
    IF prep.sequence_rows # <<>> THEN prep.sequence_rows
    ELSE IF prep.sequences # <<>> THEN Last(prep.sequences).rows
    ELSE <<>>

\* the last row of the stream that is no end_sequence at a non-zero address
last_data_row ==
    IF stream # <<>> /\ Last(stream).end_sequence /\ Last(stream).address # 0
    THEN Len(stream) - 1
    ELSE Len(stream)

\* C16: when accepted rows repeat an address, the sequence has exactly one row
\* for that address, with the file_index and line of the last of them; the
\* addresses of every prepared sequence are strictly increasing.
C16_RepeatedAddressKeepsLast ==
    /\ repeated(last_data_row) =>
           LET row == stream[last_data_row]
           IN  /\ current_rows # <<>>
               /\ Last(current_rows).address = row.address
               /\ Last(current_rows).file_index = row.file_index
               /\ Last(current_rows).line = row.line
               /\ Cardinality({i \in DOMAIN current_rows :
                                  current_rows[i].address = row.address}) = 1
               /\ line_program.present
                      => \E i \in DOMAIN line_program.sequences :
                             line_program.sequences[i].rows = current_rows
    /\ \A i \in DOMAIN line_program.sequences :
           \A k \in 1..(Len(line_program.sequences[i].rows) - 1) :
               line_program.sequences[i].rows[k].address
                   < line_program.sequences[i].rows[k + 1].address

\* a prepared program whose stream gave a row and then two rows at one higher
\* address, with different files and lines
C16_Witness ==
    /\ line_program.present
    /\ Len(stream) = 3
    /\ repeated(3)
    /\ stream[2].file_index # stream[3].file_index
    /\ stream[1].address < stream[2].address
    /\ accepted(1)
    /\ Len(current_rows) = 2

\* the stream ended with an open sequence
open_at_end == line_program.present /\ prep.sequence_rows # <<>>

\* C17: when the stream ends without end_sequence, the last row of the final
\* sequence has size 1 and get_rows returns it for every range that holds
\* its address.
C17_OpenSequenceLastRowSizeOne ==
    open_at_end =>
        LET last == Last(prep.sequence_rows)
        IN  /\ \E i \in DOMAIN line_program.sequences :
                   /\ line_program.sequences[i].rows = prep.sequence_rows
                   /\ Last(line_program.sequences[i].rows).size = 1
            /\ (query # NoQuery /\ query.begin <= last.address /\ last.address < query.end)
                   => \E k \in DOMAIN returned : returned[k].address = last.address

\* C18: in a prepared program whose stream ended with an end_sequence row
\* (not at address 0), every row of every sequence has a size.
C18_ClosedSequencesHaveSizes ==
    (/\ line_program.present
     /\ stream # <<>>
     /\ Last(stream).end_sequence
     /\ Last(stream).address # 0)
        => \A i \in DOMAIN line_program.sequences :
               \A k \in DOMAIN line_program.sequences[i].rows :
                   line_program.sequences[i].rows[k].size # None

\* s is the beginning of t
IsPrefix(s, t) == Len(s) <= Len(t) /\ s = SubSeq(t, 1, Len(s))

\* C15: the items of the second iterator of a session are the items of the
\* first, one by one and, when it has returned None, all of them.
C15_SecondRunRepeatsFirst ==
    run = 2 =>
        /\ IsPrefix(emitted, first_run.emitted)
        /\ finished => emitted = first_run.emitted

\* both iterators have finished, and returned a function, an error and the
\* final None
C15_Witness ==
    /\ run = 2
    /\ finished
    /\ \E i, j \in DOMAIN emitted :
           /\ emitted[i].kind = "function"
           /\ emitted[j].kind = "error"
    /\ \E u \in DOMAIN units : units[u].state = "unit"

\* DIE i of the walk is an inlined_subroutine outside any skipped subtree,
\* met when no function was left on the stack
orphan_inline(i) ==
    /\ walked[i].tag = "inlined_subroutine"
    /\ walked[i].outcome # "skipped"
    /\ walked[i].pending = 0

\* C21 as stated: every inlined_subroutine met outside a skipped subtree with
\* no function on the stack ends the walk with UnexpectedInline.
C21_OrphanInlineFails ==
    \A i \in DOMAIN walked :
        orphan_inline(i) => walked[i].outcome = "UnexpectedInline"

\* C21: an inlined_subroutine met outside a skipped subtree with no function
\* on the stack, whose ranges parse without error to a buffer that is not
\* empty, ends the walk of its unit with UnexpectedInline, which next() yields.
C21_OrphanInlineWithRangesFails ==
    \A i \in DOMAIN walked :
        (/\ orphan_inline(i)
         /\ parse_ranges(walked[i].attrs, info.kind).err = "none"
         /\ parse_ranges(walked[i].attrs, info.kind).range_buf # <<>>)
            => /\ walked[i].outcome = "UnexpectedInline"
               /\ \E k \in DOMAIN emitted :
                      /\ emitted[k].kind = "error"
                      /\ emitted[k].error = "UnexpectedInline"
                      /\ emitted[k].unit = walked[i].unit

\* an inlined_subroutine with ranges follows a function at its own depth,
\* which the flush took off the stack
C21_Witness ==
    \E i \in DOMAIN walked :
        /\ i > 1
        /\ orphan_inline(i)
        /\ walked[i].ranges # <<>>
        /\ walked[i].outcome = "UnexpectedInline"
        /\ walked[i - 1].outcome = "pushed"
        /\ walked[i - 1].unit = walked[i].unit
        /\ walked[i - 1].depth = walked[i].depth

\* the result SourceLocation::file or ::function must give for the index idx
\* into a table of n entries
expected_access(idx, n, what, error) ==
    IF idx = None THEN [kind |-> "none", idx |-> None]
    ELSE IF idx \in 0..(n - 1) THEN [kind |-> what, idx |-> idx]
    ELSE [kind |-> error, idx |-> idx]

\* C22: every source location the iterator yields is an entry of the table,
\* and a next() that fails has an index outside the table; file() and
\* function() give None for an absent index, the entry for an index inside
\* the table and the error with the index for one outside.
C22_IndicesAreValidOrFail ==
    /\ \A k \in DOMAIN yielded : yielded[k] \in 0..(Len(format.source_locations) - 1)
    /\ \A k \in DOMAIN results :
           results[k] = "err" =>
               /\ source_location_idx # None
               /\ source_location_idx >= Len(format.source_locations)
    /\ (~failed /\ results # <<>> /\ source_location_idx # None
            /\ source_location_idx >= Len(format.source_locations)
            /\ Len(results) > Len(yielded))
           => Last(results) = "err"
    /\ accessed.accessor = "file" =>
           accessed.result =
               expected_access(At(format.source_locations, accessed.location).file_idx,
                               format.files, "file", "InvalidFileReference")
    /\ accessed.accessor = "function" =>
           accessed.result =
               expected_access(At(format.source_locations, accessed.location).function_idx,
                               format.functions, "function", "InvalidFunctionReference")

\* the iterator yielded a source location whose file index is past the
\* table, file() gave the error, and the next next() failed on the chain index
C22_Witness ==
    /\ accessed.accessor = "file"
    /\ accessed.result.kind = "InvalidFileReference"
    /\ yielded # <<>>
    /\ results # <<>>
    /\ Last(results) = "err"

\* C23: no lookup fails, for any address and any lengths of the tables.
C23_LookupNeverFails == ~failed

\* the last row of the stream is an end_sequence row, not at address 0, that
\* finds rows accumulated
closes_sequence ==
    /\ stream # <<>>
    /\ Last(stream).end_sequence
    /\ Last(stream).address # 0
    /\ prep_before(Len(stream)).sequence_rows # <<>>

\* C24: the sequence that an end_sequence row at address A closes has
\* end = max(A, prev_address + 1), which is greater than the address of its
\* last row.
C24_ClosedEndCoversLastRow ==
    closes_sequence =>
        LET closed == Last(prep.sequences)
            before == prep_before(Len(stream))
        IN  /\ closed.end = Max(Last(stream).address, before.prev_address + 1)
            /\ closed.end > Last(closed.rows).address

\* the sequences prepare has closed, and those of the prepared program
produced_sequences ==
    {prep.sequences[i] : i \in DOMAIN prep.sequences}
        \cup {line_program.sequences[i] : i \in DOMAIN line_program.sequences}

\* C25: every sequence prepare produces has rows, at strictly increasing
\* addresses, none at address 0, starts at the address of its first row and
\* ends at or after the address of its last row.
C25_SequencesWellFormed ==
    \A seq \in produced_sequences :
        /\ seq.rows # <<>>
        /\ \A k \in 1..(Len(seq.rows) - 1) : seq.rows[k].address < seq.rows[k + 1].address
        /\ \A k \in DOMAIN seq.rows : seq.rows[k].address # 0
        /\ seq.start = seq.rows[1].address
        /\ seq.end >= Last(seq.rows).address

\* a prepared program with a sequence of two rows, whose stream held a row
\* at address 0 between them
C25_Witness ==
    /\ line_program.present
    /\ \E i \in DOMAIN line_program.sequences : Len(line_program.sequences[i].rows) = 2
    /\ Len(stream) >= 3
    /\ stream[1].address # 0
    /\ stream[2].address = 0

\* the last row of the stream is no end_sequence row and lies below the
\* previous accepted row
lower_row ==
    /\ stream # <<>>
    /\ ~Last(stream).end_sequence
    /\ Last(stream).address # 0
    /\ Last(stream).address < prep_before(Len(stream)).prev_address

\* C26: a row below the previous accepted row changes nothing: the
\* accumulated rows with their sizes, prev_address and the closed sequences
\* are what they were.
C26_LowerRowHasNoEffect ==
    lower_row => prep = prep_before(Len(stream))

\* a row at 1 after a closed sequence and a row at 2
C26_Witness ==
    /\ lower_row
    /\ prep.sequences # <<>>
    /\ prep.sequence_rows # <<>>

\* the sequences of the prepared program with end > range.begin and
\* start <= range.end, for the range of the last get_rows
qualifying ==
    {i \in DOMAIN line_program.sequences :
        /\ line_program.sequences[i].end > query.begin
        /\ line_program.sequences[i].start <= query.end}

\* the first of them in the order of the program
first_qualifying ==
    line_program.sequences[CHOOSE i \in qualifying : \A j \in qualifying : i <= j]

\* the rows of seq at or below range.begin
rows_at_or_below(seq, range) ==
    {k \in DOMAIN seq.rows : seq.rows[k].address <= range.begin}

\* the run of rows of seq from the row with the greatest address at or below
\* range.begin to the last row below range.end
expected_rows(seq, range) ==
    IF rows_at_or_below(seq, range) = {} THEN <<>>
    ELSE LET from == CHOOSE k \in rows_at_or_below(seq, range) :
                         \A j \in rows_at_or_below(seq, range) :
                             seq.rows[j].address <= seq.rows[k].address
             below_end == {k \in from..Len(seq.rows) : seq.rows[k].address < range.end}
             to == CHOOSE k \in below_end : \A j \in below_end : j <= k
         IN  SubSeq(seq.rows, from, to)

\* C27: get_rows returns the run of the first qualifying sequence that starts
\* at the row with the greatest address at or below range.begin and holds the
\* following rows below range.end; no rows when no sequence qualifies or the
\* sequence has no row at or below range.begin.
C27_GetRowsReturnsCoveringRun ==
    query # NoQuery =>
        returned = IF qualifying = {} THEN <<>>
                   ELSE expected_rows(first_qualifying, query)

\* the run returned starts at a row below range.begin, and a later row of
\* the sequence at or above range.end is left out
C27_Witness ==
    /\ query # NoQuery
    /\ returned # <<>>
    /\ returned[1].address < query.begin
    /\ Len(first_qualifying.rows) > Len(returned)
    /\ Last(first_qualifying.rows).address >= query.end

\* C28: the rows get_rows returns are consecutive rows of the first
\* qualifying sequence, and there are none when that sequence has no row at
\* or below range.begin, whatever the later sequences hold.
C28_FirstMatchWins ==
    query # NoQuery =>
        /\ returned # <<>> =>
               /\ qualifying # {}
               /\ \E a, b \in DOMAIN first_qualifying.rows :
                      returned = SubSeq(first_qualifying.rows, a, b)
        /\ (qualifying # {} /\ rows_at_or_below(first_qualifying, query) = {})
               => returned = <<>>

\* two sequences that overlap both qualify and both have a row at or below
\* range.begin; the rows returned are not those of the second
C28_Witness ==
    /\ query # NoQuery
    /\ returned # <<>>
    /\ \E j \in qualifying :
           /\ line_program.sequences[j] # first_qualifying
           /\ line_program.sequences[j].start < first_qualifying.end
           /\ expected_rows(line_program.sequences[j], query) # <<>>
           /\ expected_rows(line_program.sequences[j], query) # returned

\* an attribute whose value is an address, given directly or through
\* .debug_addr
absolute(attr) ==
    \/ attr.form = "addr"
    \/ attr.form = "addrx" /\ attr.value < Len(DebugAddr)

\* the address it gives
resolved(attr) ==
    IF attr.form = "addr" THEN attr.value ELSE At(DebugAddr, attr.value)

\* the parsed DIE has a low_pc at position i and an absolute high_pc above
\* it at position j, and nothing else
low_and_high(i, j) ==
    /\ Len(entry) = 2
    /\ {i, j} = {1, 2}
    /\ entry[i].name = "low_pc" /\ absolute(entry[i])
    /\ entry[j].name = "high_pc" /\ absolute(entry[j])
    /\ resolved(entry[j]) > resolved(entry[i])
    /\ (resolved(entry[i]) # 0 \/ info.kind = "Relocatable")

\* C29: a DIE with a low_pc L and a high_pc given as an address H > L,
\* directly or as an index into .debug_addr, and no range list is parsed to
\* the single range [L, H).
C29_AbsoluteHighPcSetsHighPc ==
    \A i, j \in 1..2 :
        low_and_high(i, j) =>
            /\ parse_result.err = "none"
            /\ parse_result.range_buf = <<R(resolved(entry[i]), resolved(entry[j]))>>

\* a range list of the parsed DIE in which an InvalidAddressRange is the
\* first failure
ends_at_invalid(list) ==
    \E k \in DOMAIN list :
        /\ list[k] = Failure("InvalidAddressRange")
        /\ \A h \in 1..(k - 1) : ~failed_entry(list[h])

\* the entries of a range list before its first failure
RECURSIVE before_failure(_)
before_failure(list) ==
    IF list = <<>> \/ "error" \in DOMAIN Head(list) THEN <<>>
    ELSE <<Head(list)>> \o before_failure(Tail(list))

\* the entries before the first failure of every range list of the DIE that
\* begin above 0 or belong to a relocatable object, in the order of the lists
RECURSIVE kept_before_failures(_)
kept_before_failures(attrs) ==
    IF attrs = <<>> THEN <<>>
    ELSE (IF Head(attrs).name = "ranges"
          THEN SelectSeq(before_failure(Head(attrs).value),
                         LAMBDA r : r.begin > 0 \/ info.kind = "Relocatable")
          ELSE <<>>)
         \o kept_before_failures(Tail(attrs))

\* the ranges parse_ranges left in the buffer
ranges_parsed == {parse_result.range_buf[k] : k \in DOMAIN parse_result.range_buf}

\* C30 as stated: when a range list of the DIE has an entry that fails with
\* InvalidAddressRange and the parse is not aborted, the valid entries after
\* it in that list are in the range buffer.
C30_InvalidRangeSwallowedIndividually ==
    entry # NoEntry =>
        \A i \in DOMAIN entry :
            (entry[i].name = "ranges" /\ parse_result.err = "none") =>
                \A k, l \in DOMAIN entry[i].value :
                    (/\ k < l
                     /\ entry[i].value[k] = Failure("InvalidAddressRange")
                     /\ ~failed_entry(entry[i].value[l])
                     /\ entry[i].value[l].begin > 0)
                        => entry[i].value[l] \in ranges_parsed

\* C30 amended: an InvalidAddressRange is never returned as an error, and it
\* ends the expansion of its list: the range buffer of a DIE whose lists give
\* a range holds the entries before the first failure of each list and none
\* of those after it.
C30_InvalidRangeEndsExpansion ==
    entry # NoEntry =>
        /\ parse_result.err # "InvalidAddressRange"
        /\ (/\ parse_result.err = "none"
            /\ \E i \in DOMAIN entry :
                   entry[i].name = "ranges" /\ ends_at_invalid(entry[i].value)
            /\ kept_before_failures(entry) # <<>>)
               => parse_result.range_buf = kept_before_failures(entry)

\* a list with a valid entry on either side of an InvalidAddressRange was
\* parsed without an error, and the buffer holds only the first
C30_Witness ==
    /\ Len(entry) = 1
    /\ entry[1].name = "ranges"
    /\ Len(entry[1].value) = 3
    /\ entry[1].value[2] = Failure("InvalidAddressRange")
    /\ parse_result.err = "none"
    /\ parse_result.range_buf = <<entry[1].value[1]>>

\* the depths of the pending functions, from the bottom of the stack
pending_depths == [k \in DOMAIN stack |-> stack[k].depth]

\* the last DIE walked was a subprogram or an inlined_subroutine that was
\* not inside a skipped function
function_processed ==
    /\ walked # <<>>
    /\ Last(walked).tag \in {"subprogram", "inlined_subroutine"}
    /\ Last(walked).outcome # "skipped"

\* C34: the depths of the pending functions increase strictly from the bottom
\* of the stack to its top, and after a function DIE was processed at depth d
\* every pending function but the one pushed for it has a depth below d.
C34_StackDepthsStrictlyIncrease ==
    /\ \A k \in 1..(Len(stack) - 1) : pending_depths[k] < pending_depths[k + 1]
    /\ function_processed =>
           \A k \in DOMAIN stack :
               \/ pending_depths[k] < Last(walked).depth
               \/ k = Len(stack) /\ Last(walked).outcome = "pushed"
                                 /\ pending_depths[k] = Last(walked).depth

\* a function with an inlinee was pending when a second inlinee of the same
\* depth was walked: the flush took the first inlinee off, the second is on top
C34_Witness ==
    /\ Len(walked) = 3
    /\ \A k \in 1..3 : walked[k].outcome = "pushed" /\ walked[k].unit = unit_index
    /\ walked[2].depth = 2
    /\ walked[3].depth = 2
    /\ pending_depths = <<1, 2>>

\* C35: after an inlinee with call_line and call_file, every address of the
\* inlinee's ranges is covered by a record of the parent's lines, and the
\* records inserted for it cover no address outside the ranges: an address
\* outside them that is covered afterwards was covered before.
C35_SpliceCoversInlineeRange ==
    HasCallSite =>
        /\ \A a \in AdjustedAddrs :
               in_inlinee(a) => \E i \in DOMAIN parent_lines : covers(parent_lines[i], a)
        /\ \A a \in AdjustedAddrs :
               (~in_inlinee(a) /\ \E i \in DOMAIN parent_lines : covers(parent_lines[i], a))
                   => \E j \in DOMAIN lines_before : covers(lines_before[j], a)

C40_FirstRowReachesRangeBegin ==
    (query # NoQuery /\ returned # <<>> /\ returned[1].size # None) =>
        returned[1].address + returned[1].size >= query.begin

\* the first row returned begins below range.begin and has a size, and a
\* sequence that ends at or below range.begin was passed over
C40_Witness ==
    /\ query # NoQuery
    /\ returned # <<>>
    /\ returned[1].size # None
    /\ returned[1].address < query.begin
    /\ \E k \in DOMAIN line_program.sequences :
           /\ line_program.sequences[k].end <= query.begin
           /\ line_program.sequences[k].rows[1].size # None

\* the walk of unit u ran to its end and the iterator is past its functions
walk_completed(u) ==
    /\ u \notin failed_units
    /\ \/ unit_index > u
       \/ unit_index = u /\ pc = "idle" /\ functions = <<>>

\* walked DIE i is a subprogram directly below the unit DIE with ranges
top_level_subprogram(i) ==
    /\ walked[i].tag = "subprogram"
    /\ walked[i].depth = 1
    /\ walked[i].ranges # <<>>
    /\ ~error_outcome(i)

\* C36: every subprogram DIE directly below the unit DIE that has ranges, in
\* a unit whose walk completes without error, has a function with its
\* (address, size) among the functions the iterator has emitted, also when an
\* earlier unit failed after it had registered functions in seen_ranges.
C36_TopLevelSubprogramIsEmitted ==
    \A i \in DOMAIN walked :
        (top_level_subprogram(i) /\ walk_completed(walked[i].unit)) =>
            \E f \in EmittedFunctions : <<f.address, f.size>> = key_of(i)

\* the unit looks eliminated: low_pc 0 or absent, no DW_AT_ranges
looks_eliminated(header) == header.low_pc = 0 /\ ~header.ranges

\* what the iterator has from unit u: DIEs walked, functions and errors
contributed(u) ==
    \/ \E i \in DOMAIN walked : walked[i].unit = u
    \/ \E j \in DOMAIN emitted : emitted[j].kind # "none" /\ emitted[j].unit = u
    \/ \E k \in DOMAIN functions : walked[functions[k].die].unit = u

exact_symbols ==
    {k \in DOMAIN subject.symbol_map :
         subject.symbol_map[k].address = subject.begin - info.address_offset}

\* the name DWARF gives the subject, the empty name if it gives none
dwarf_or_empty ==
    IF name_result.kind = "name" THEN name_result.name ELSE EmptyName

named_exact_symbols == {k \in exact_symbols : subject.symbol_map[k].name # <<>>}

positions_of(names) == {i \in DOMAIN subject.attrs : subject.attrs[i].name \in names}

linkage_names == positions_of({"linkage_name", "MIPS_linkage_name"})

name_attrs == positions_of({"name"})

reference_attrs == positions_of({"abstract_origin", "specification"})

first_of(positions) == CHOOSE i \in positions : \A j \in positions : i <= j

last_of(positions) == CHOOSE i \in positions : \A j \in positions : j <= i

\* the call of resolve_function_name for the subject ends in this step
subject_call_ends ==
    /\ subject # NoSubject
    /\ resolving = subject.at
    /\ name_result = Pending
    /\ (name_result' # Pending \/ resolving' # resolving)

\* what the call that ends in this step gives: its result, or the DIE it
\* goes on with
call_outcome == IF name_result' # Pending THEN name_result' ELSE [kind |-> "follow", to |-> resolving']

\* C32 as stated: a linkage name is returned as mangled whenever the DIE has
\* one; otherwise the first name attribute as unmangled; otherwise the first
\* abstract_origin or specification attribute is the reference followed.
C32_FirstOfEachKind ==
    [][subject_call_ends =>
          IF linkage_names # {}
          THEN /\ call_outcome.kind = "name"
               /\ call_outcome.name.mangling = "Mangled"
               /\ \E i \in linkage_names :
                      <<call_outcome.name.string>> = string_value(subject.attrs[i])
          ELSE IF name_attrs # {}
          THEN call_outcome = name_of(subject.attrs[first_of(name_attrs)], "Unmangled")
          ELSE IF reference_attrs # {}
          THEN call_outcome = resolve_reference(subject.at, subject.attrs[first_of(reference_attrs)])
          ELSE call_outcome = NoNameFound]_vars

\* C32 amended: the first linkage name decides the result whenever the DIE
\* has one, as a mangled name if its value is a string and as no name if it
\* is not; otherwise the last name attribute is returned as unmangled;
\* otherwise the last abstract_origin or specification attribute is the
\* reference followed.
C32_LinkageThenLastNameThenLastReference ==
    [][subject_call_ends =>
          IF linkage_names # {}
          THEN call_outcome = name_of(subject.attrs[first_of(linkage_names)], "Mangled")
          ELSE IF name_attrs # {}
          THEN call_outcome = name_of(subject.attrs[last_of(name_attrs)], "Unmangled")
          ELSE IF reference_attrs # {}
          THEN call_outcome = resolve_reference(subject.at, subject.attrs[last_of(reference_attrs)])
          ELSE call_outcome = NoNameFound]_vars

\* a DIE with two different names, none of them a linkage name, has been
\* given the second
C32_Witness ==
    /\ linkage_names = {}
    /\ Cardinality(name_attrs) = 2
    /\ subject.attrs[first_of(name_attrs)] # subject.attrs[last_of(name_attrs)]
    /\ resolving = subject.at
    /\ name_result = name_of(subject.attrs[last_of(name_attrs)], "Unmangled")

\* C33: name resolution of a DIE always terminates: every call of
\* resolve_function_name that has begun leads to a result.
C33_NameResolutionTerminates == (resolving # NoDie) ~> (name_result # Pending)

\* C38: an error of DWARF name resolution is no error of the iterator: the
\* function gets a name all the same, the empty unmangled one, the symbol
\* table having given none.
C38_NameErrorGivesEmptyName ==
    name_result.kind = "error" =>
        /\ function_name = <<>> => ENABLED NameFunction
        /\ function_name # <<>> => function_name = <<EmptyName>>
        /\ named_exact_symbols = {} \/ symbol_lookups = 0

\* a specification attribute that points before the first unit header gave
\* InvalidUnitRef, and the function has the empty name
C38_Witness ==
    /\ name_result.kind = "error"
    /\ name_result.error = "InvalidUnitRef"
    /\ \E i \in reference_attrs :
           subject.attrs[i].form = "debug_info_ref" /\ subject.attrs[i].value = 0
    /\ function_name = <<EmptyName>>

====
